---- MODULE Spec2Model ----
(***************************************************************************)
(* Model of the OneEdge API client (src/src/oneEdge/oneEdgeApi.py): the    *)
(* TTL session cache, the derived authentication state, the bounded        *)
(* transport retry of run_commands, _process_response, run_command,        *)
(* authenticate and verify_auth_state.                                     *)
(*                                                                         *)
(* Python's Optional[x] is modelled as a sequence of length at most one:   *)
(* None is <<>> and a value v is <<v>>.  A dict is a function whose        *)
(* DOMAIN is the dict's key set.  The HTTP server is the environment: it   *)
(* answers a POST with a transport failure or with any JSON object of the  *)
(* set Responses(cmds).                                                    *)
(***************************************************************************)
EXTENDS Integers, Sequences, FiniteSets, TLC

VARIABLES
    _session_cache,   \* the single link of TTLCache(maxsize=1, ttl=28800)
    _last_error,      \* OneEdgeApi._last_error
    _auth_state,      \* OneEdgeApi._auth_state
    now,              \* the cache timer (seconds)
    ticks,            \* number of Tick steps taken (bounded)
    sleeps,           \* number of retry sleeps so far (bounded)
    pc,               \* position of the caller inside run_commands
    caller,           \* the operation that entered run_commands
    cmds,             \* run_commands' argument
    payload,          \* run_commands' local payload
    retry_count,      \* run_commands' loop variable
    start,            \* session_id as read when the operation began
    calc,             \* last evaluation of _calculate_auth_state
    stored,           \* last assignment through the session_id setter
    posts,            \* the POSTs issued by the current run_commands call
    received,         \* the response the current call received, if any
    rc,               \* how the last run_commands call ended
    ret,              \* how the last operation ended
    drv               \* the operation driving the client's calls, if any

vars == << _session_cache, _last_error, _auth_state, now, ticks, sleeps,
           pc, caller, cmds, payload, retry_count, start, calc, stored,
           posts, received, rc, ret, drv >>

-----------------------------------------------------------------------------
(* Values *)

None == <<>>
Some(v) == <<v>>

AUTHENTICATED == "AUTHENTICATED"
NOT_AUTHENTICATED == "NOT_AUTHENTICATED"
WAITING_FOR_MFA == "WAITING_FOR_MFA"
AuthState == {AUTHENTICATED, NOT_AUTHENTICATED, WAITING_FOR_MFA}

MAX_RETRIES == 3
RETRY_DELAY == 5
ITERATION_LIMIT == 100
SESSION_TTL == 28800
MFA_REQUIRED == -90041
SESSION_EXPIRED == -90000

\* Bounds of the environment.
MaxTicks == 1
MaxSleeps == 2
MaxFreePages == 1

SessionIds == {"s1"}
ErrorCodes == {MFA_REQUIRED, SESSION_EXPIRED}
OptSession == {None} \cup {Some(s) : s \in SessionIds}
OptError == {None} \cup {Some(e) : e \in ErrorCodes}
TickDeltas == {SESSION_TTL - 1, SESSION_TTL}

-----------------------------------------------------------------------------
(* Session store: cachetools.TTLCache with one key *)

EmptyCache == [present |-> FALSE, value |-> None, expires |-> 0]

\* Mutant of CacheGet: the link is still readable at its expiry time.
CacheGet_InclusiveExpiry(cache, t) ==
    IF cache.present /\ t <= cache.expires THEN cache.value ELSE None

\* TTLCache.get('session_id'): absent or expired keys read as None.
CacheGet(cache, t) ==
    IF cache.present /\ t < cache.expires THEN cache.value ELSE None

\* TTLCache.__setitem__: the link expires ttl after the store.
CacheSet(cache, v, t) ==
    [present |-> TRUE, value |-> v, expires |-> t + SESSION_TTL]

-----------------------------------------------------------------------------
(* Auth state machine *)

\* Mutant of CalculateAuthState: the MFA code is tested before the session.
CalculateAuthState_MfaFirst(session, last_error) ==
    IF last_error = Some(MFA_REQUIRED) THEN WAITING_FOR_MFA
    ELSE IF session # None THEN AUTHENTICATED
    ELSE NOT_AUTHENTICATED

CalculateAuthState(session, last_error) ==
    IF session # None THEN AUTHENTICATED
    ELSE IF last_error = Some(MFA_REQUIRED) THEN WAITING_FOR_MFA
    ELSE IF last_error = Some(SESSION_EXPIRED) THEN NOT_AUTHENTICATED
    ELSE NOT_AUTHENTICATED

\* The client's fields threaded through the statements of one step.
Self ==
    [cache |-> _session_cache, last_error |-> _last_error,
     auth_state |-> _auth_state, calc |-> calc, stored |-> stored]

Recalculate(st, t) ==
    LET s == CacheGet(st.cache, t)
        a == CalculateAuthState(s, st.last_error)
    IN  [st EXCEPT !.auth_state = a,
                   !.calc = [session |-> s, last_error |-> st.last_error,
                             result |-> a]]

\* session_id.setter
SetSessionId(st, v, t) ==
    Recalculate([st EXCEPT !.cache = CacheSet(st.cache, v, t),
                           !.stored = [at |-> t, value |-> v, set |-> TRUE]], t)

\* last_error.setter
SetLastError(st, v, t) ==
    Recalculate([st EXCEPT !.last_error = v], t)

\* auth_state.setter
SetAuthState(st, s) ==
    IF s # st.auth_state THEN [st EXCEPT !.auth_state = s] ELSE st

Commit(st) ==
    /\ _session_cache' = st.cache
    /\ _last_error' = st.last_error
    /\ _auth_state' = st.auth_state
    /\ calc' = st.calc
    /\ stored' = st.stored

\* The session_id property as read at the current time.
session_id == CacheGet(_session_cache, now)

-----------------------------------------------------------------------------
(* Command batches and server responses *)

MaxBatch == 2
Key(i) == ToString(i)
Usernames == {"user"}
Passwords == {"pw"}

Cmd(k) == [command |-> "thing.tag.add", params |-> [thingKey |-> k]]
SessionInfo == [command |-> "session.info"]
SessionEnd(session) == [command |-> "session.end", params |-> [id |-> session]]
LoginCmd(username, password) ==
    [command |-> "api.authenticate",
     params |-> [username |-> username, password |-> password]]

\* Non-login batches: one command per key, keys are batch-local strings.
Batches == { [k \in {Key(i) : i \in 1..n} |-> Cmd(k)] : n \in 0..MaxBatch }
SingleCommands == {Cmd("1")}
AuthPayload(username, password) == "auth" :> LoginCmd(username, password)

\* Entries the server may return for a submitted key.
CommandEntries ==
    { [success |-> TRUE],
      [success |-> FALSE, errorCodes |-> <<SESSION_EXPIRED>>] }
LoginEntries ==
    { [success |-> TRUE, params |-> [sessionId |-> "s1"]],
      [success |-> TRUE, params |-> [other |-> "x"]],
      [success |-> TRUE],
      [success |-> FALSE, errorCodes |-> <<MFA_REQUIRED>>],
      [success |-> FALSE, errorCodes |-> <<SESSION_EXPIRED>>],
      [success |-> FALSE, errorCodes |-> <<>>],
      [success |-> FALSE] }

\* The commands run_iterated_command is given, and the parameters it injects.
IterCommands ==
    { [command |-> "thing.list", params |-> <<>>],
      [command |-> "thing.list", params |-> [iterator |-> "c2", limit |-> 10]] }
IterParams ==
    [iterator |-> "new", useSearch |-> TRUE, limit |-> 2000, showCount |-> FALSE]

\* Mutant of Update: the values already in d are kept.
Update_SetDefault(d, u) == d @@ u

\* dict.update: the keys of u replace those of d.
Update(d, u) == u @@ d

IsIterated(c) ==
    /\ "1" \in DOMAIN c
    /\ "params" \in DOMAIN c["1"]
    /\ "iterator" \in DOMAIN c["1"].params

\* Entries the server may return for one page: a page with a fresh cursor,
\* a page that echoes the cursor sent, a page without a cursor, an entry
\* without params, a failure.
IterEntries(sent) ==
    { [success |-> TRUE, params |-> [result |-> <<"a">>, iterator |-> "c1"]],
      [success |-> TRUE, params |-> [result |-> <<"b", "c">>, iterator |-> "c2"]],
      [success |-> TRUE, params |-> [result |-> <<"a">>, iterator |-> sent]],
      [success |-> TRUE, params |-> [result |-> <<"a">>]],
      [success |-> TRUE],
      [success |-> FALSE, errorCodes |-> <<SESSION_EXPIRED>>] }

EntriesFor(c) ==
    IF "auth" \in DOMAIN c THEN LoginEntries
    ELSE IF IsIterated(c) THEN IterEntries(c["1"].params.iterator)
    ELSE CommandEntries

\* Top-level summary keys of a response; <<>> is the dict without them.
Tops ==
    { <<>>,
      [success |-> TRUE],
      [success |-> FALSE, errorCodes |-> <<>>],
      [success |-> FALSE, errorCodes |-> <<MFA_REQUIRED>>],
      [success |-> FALSE, errorCodes |-> <<SESSION_EXPIRED, MFA_REQUIRED>>,
       errorMessages |-> "msg"],
      [success |-> FALSE] }

\* Every JSON object the server may answer to the batch c: entries for any
\* subset of the submitted keys, under any top.
Bodies(c) == UNION { [K -> EntriesFor(c)] : K \in SUBSET (DOMAIN c) }
Responses(c) == { top @@ body : top \in Tops, body \in Bodies(c) }

-----------------------------------------------------------------------------
(* _process_response *)

TopFailed(response_data) ==
    "success" \in DOMAIN response_data /\ ~response_data["success"]

\* Mutant of ProcessedResults: only the keys the response already has are
\* rewritten on a failed top level.
ProcessedResults_PresentKeysOnly(response_data, c) ==
    IF TopFailed(response_data)
    THEN [k \in DOMAIN response_data |->
            IF k \in DOMAIN c
            THEN [success |-> FALSE, errorCodes |-> response_data["errorCodes"]]
            ELSE response_data[k]]
    ELSE [k \in DOMAIN response_data \cup {"success", "errorCodes"} |->
            IF k = "success" THEN TRUE
            ELSE IF k = "errorCodes" THEN <<>>
            ELSE response_data[k]]

\* Mutant of ProcessedResults: the results are built as a fresh dict of the
\* submitted keys and the summary, dropping what else the response holds.
ProcessedResults_FreshDict(response_data, c) ==
    IF TopFailed(response_data)
    THEN [k \in DOMAIN c \cup {"success", "errorCodes"} |->
            IF k \in DOMAIN c
            THEN [success |-> FALSE, errorCodes |-> response_data["errorCodes"]]
            ELSE response_data[k]]
    ELSE [k \in DOMAIN response_data \cup {"success", "errorCodes"} |->
            IF k = "success" THEN TRUE
            ELSE IF k = "errorCodes" THEN <<>>
            ELSE response_data[k]]

\* The results dict: on a failed top level every submitted key is rewritten,
\* otherwise the synthetic success/errorCodes are written into the response.
ProcessedResults(response_data, c) ==
    IF TopFailed(response_data)
    THEN [k \in DOMAIN response_data \cup DOMAIN c |->
            IF k \in DOMAIN c
            THEN [success |-> FALSE, errorCodes |-> response_data["errorCodes"]]
            ELSE response_data[k]]
    ELSE [k \in DOMAIN response_data \cup {"success", "errorCodes"} |->
            IF k = "success" THEN TRUE
            ELSE IF k = "errorCodes" THEN <<>>
            ELSE response_data[k]]

\* results['errorCodes'][0] if the list is non-empty, else None.
FirstErrorCode(results) ==
    IF results["errorCodes"] # <<>> THEN Some(Head(results["errorCodes"]))
    ELSE None

\* [raised, results, st]: a failed top level without errorCodes is a KeyError
\* raised before any field is written.
ProcessResponse(st, response_data, c, t) ==
    IF TopFailed(response_data) /\ "errorCodes" \notin DOMAIN response_data
    THEN [raised |-> "KeyError", results |-> <<>>, st |-> st]
    ELSE LET results == ProcessedResults(response_data, c)
         IN  [raised |-> "", results |-> results,
              st |-> SetLastError(st, FirstErrorCode(results), t)]

-----------------------------------------------------------------------------
(* What each caller does with the outcome of run_commands.  The statements *)
(* after the awaited call run without suspension, so they belong to the    *)
(* step that delivers the response.                                        *)

Returned(op, v) == [op |-> op, kind |-> "return", value |-> v]
Raised(op, e) == [op |-> op, kind |-> e, value |-> None]
Pending(op) == [op |-> op, kind |-> "pending", value |-> None]
Out(st, r) == [st |-> st, ret |-> r]

\* Mutant of RunCommandValue: the full result is returned in every case.
RunCommandValue_FullResult(results) == results

\* run_command: result.get('1', result)
RunCommandValue(results) ==
    IF "1" \in DOMAIN results THEN results["1"] ELSE results

\* authenticate, after run_commands returned results
AuthenticateContinue(st, results, t) ==
    LET auth_response == IF "auth" \in DOMAIN results THEN results["auth"] ELSE <<>>
        ok == "success" \in DOMAIN auth_response /\ auth_response["success"]
    IN  IF ok
        THEN IF "params" \notin DOMAIN auth_response
             THEN Out(st, Raised("authenticate", "KeyError"))
             ELSE LET params == auth_response["params"]
                      sid == IF "sessionId" \in DOMAIN params
                             THEN Some(params["sessionId"]) ELSE None
                  IN  Out(SetAuthState(SetSessionId(st, sid, t), AUTHENTICATED),
                          Returned("authenticate", TRUE))
        ELSE IF "errorCodes" \in DOMAIN auth_response
                 /\ auth_response["errorCodes"] = <<>>
             THEN Out(st, Raised("authenticate", "IndexError"))
             ELSE LET code == IF "errorCodes" \in DOMAIN auth_response
                              THEN Some(Head(auth_response["errorCodes"]))
                              ELSE None
                  IN  Out(SetAuthState(SetLastError(st, code, t), NOT_AUTHENTICATED),
                          Returned("authenticate", FALSE))

\* verify_auth_state, after run_command returned request
VerifyContinue(st, request, t) ==
    IF "success" \notin DOMAIN request
    THEN Out(st, Raised("verify_auth_state", "KeyError"))
    ELSE IF request["success"]
    THEN Out(SetAuthState(st, AUTHENTICATED), Returned("verify_auth_state", None))
    ELSE Out(SetAuthState(SetSessionId(st, None, t), NOT_AUTHENTICATED),
             Returned("verify_auth_state", None))

\* close_session, after run_command returned res: the response is returned
\* when it reports success, None otherwise; no field is written.
CloseContinue(st, res) ==
    IF "success" \in DOMAIN res /\ res["success"]
    THEN Out(st, Returned("close_session", Some(res)))
    ELSE Out(st, Returned("close_session", None))

OnResults(op, st, results, t) ==
    CASE op = "run_commands" -> Out(st, Returned(op, results))
      [] op = "run_command" -> Out(st, Returned(op, RunCommandValue(results)))
      [] op = "authenticate" -> AuthenticateContinue(st, results, t)
      [] op = "verify_auth_state" -> VerifyContinue(st, RunCommandValue(results), t)
      [] op = "close_session" -> CloseContinue(st, RunCommandValue(results))

\* Mutant of OnApiError: the session is dropped before the error is raised.
OnApiError_DropsSession(op, st) ==
    IF op = "authenticate" THEN Out(st, Returned(op, FALSE))
    ELSE Out(SetSessionId(st, None, now), Raised(op, "OneEdgeApiError"))

\* OneEdgeApiError: authenticate catches it and returns False, the others
\* re-raise.
OnApiError(op, st) ==
    IF op = "authenticate" THEN Out(st, Returned(op, FALSE))
    ELSE Out(st, Raised(op, "OneEdgeApiError"))

-----------------------------------------------------------------------------
(* Actions *)

NoCall == [kind |-> "none", results |-> <<>>]

\* No operation is layered on the client's calls.
NoDriver == [op |-> "none"]

\* Where control goes when a call ends: back to the operation that made it.
AfterCall == IF drv.op = "none" THEN "idle" ELSE "resume"

\* Outside a call the records of the last call are dropped.
ForgetCall ==
    /\ caller' = "none"
    /\ cmds' = <<>>
    /\ payload' = <<>>
    /\ retry_count' = 0
    /\ start' = None
    /\ posts' = <<>>
    /\ received' = None
    /\ rc' = NoCall

Init ==
    /\ _session_cache = EmptyCache
    /\ _last_error = None
    /\ _auth_state = NOT_AUTHENTICATED
    /\ now = 0
    /\ ticks = 0
    /\ sleeps = 0
    /\ pc = "idle"
    /\ caller = "none"
    /\ cmds = <<>>
    /\ payload = <<>>
    /\ retry_count = 0
    /\ start = None
    /\ calc = [session |-> None, last_error |-> None,
               result |-> NOT_AUTHENTICATED]
    /\ stored = [at |-> 0, value |-> None, set |-> FALSE]
    /\ posts = <<>>
    /\ received = None
    /\ rc = NoCall
    /\ ret = Pending("none")
    /\ drv = NoDriver

\* Mutant of BuildPayload: the session key is written after the commands.
BuildPayload_AuthLast(c, session) == ("auth" :> [sessionId |-> session]) @@ c

\* payload = {'auth': {'sessionId': session_id}}; payload.update(cmds)
BuildPayload(c, session) == c @@ ("auth" :> [sessionId |-> session])

\* run_commands up to its first suspension: build the payload, enter the loop.
BeginCall(op, c) ==
    /\ payload' = BuildPayload(c, session_id)
    /\ cmds' = c
    /\ retry_count' = 0
    /\ caller' = op
    /\ pc' = "post"
    /\ start' = session_id
    /\ posts' = <<>>
    /\ received' = None
    /\ rc' = [kind |-> "pending", results |-> <<>>]
    /\ ret' = Pending(op)

Enter(op, c) ==
    /\ pc = "idle"
    /\ BeginCall(op, c)
    /\ UNCHANGED << _session_cache, _last_error, _auth_state, now, ticks,
                    sleeps, calc, stored, drv >>

CallRunCommands == \E c \in Batches : Enter("run_commands", c)

CallRunCommand == \E command \in SingleCommands : Enter("run_command", "1" :> command)

CallAuthenticate ==
    \E username \in Usernames, password \in Passwords :
        Enter("authenticate", AuthPayload(username, password))

\* Mutant of Unusable: only None counts as no session.
Unusable_NoneOnly(s) == s = None

\* not session_id or session_id in ["None", "null"]
Unusable(s) == s = None \/ s \in {Some(""), Some("None"), Some("null")}

\* verify_auth_state without a usable session: no request is made.
VerifyLocal ==
    /\ Commit(SetAuthState(SetSessionId(Self, None, now), NOT_AUTHENTICATED))
    /\ caller' = "verify_auth_state"
    /\ start' = session_id
    /\ cmds' = <<>>
    /\ payload' = <<>>
    /\ retry_count' = 0
    /\ posts' = <<>>
    /\ received' = None
    /\ rc' = NoCall

VerifyNoSession ==
    /\ VerifyLocal
    /\ ret' = Returned("verify_auth_state", None)

CallVerifyAuthState ==
    IF Unusable(session_id)
    THEN /\ pc = "idle"
         /\ VerifyNoSession
         /\ UNCHANGED << now, ticks, sleeps, pc, drv >>
    ELSE Enter("verify_auth_state", "1" :> SessionInfo)

\* session.post(...) is issued.
Post ==
    /\ pc = "post"
    /\ posts' = Append(posts, [payload |-> payload, time |-> now,
                               outcome |-> "pending"])
    /\ pc' = "await"
    /\ UNCHANGED << _session_cache, _last_error, _auth_state, now, ticks,
                    sleeps, caller, cmds, payload, retry_count, start, calc,
                    stored, received, rc, ret, drv >>

\* The outcome of the POST in flight is written into its record.
Settle(outcome) == [posts EXCEPT ![Len(posts)].outcome = outcome]

\* Mutant of MoreAttempts: the loop runs once more.
MoreAttempts_OneMore(n) == n < MAX_RETRIES

\* for retry_count in range(MAX_RETRIES): is there another iteration?
MoreAttempts(n) == n + 1 < MAX_RETRIES

\* if retry_count < MAX_RETRIES - 1: sleep before the next iteration
SleepBeforeRetry(n) == n < MAX_RETRIES - 1

\* aiohttp.ClientError or asyncio.TimeoutError: log, sleep unless this was
\* the last attempt, and go round the loop; when the loop is exhausted
\* response_data is still None and OneEdgeApiError is raised.
TransportFailure ==
    /\ pc = "await"
    /\ posts' = Settle("failed")
    /\ IF MoreAttempts(retry_count)
       THEN /\ IF SleepBeforeRetry(retry_count)
               THEN /\ sleeps < MaxSleeps
                    /\ pc' = "sleep"
                    /\ UNCHANGED retry_count
               ELSE /\ pc' = "post"
                    /\ retry_count' = retry_count + 1
            /\ UNCHANGED << _session_cache, _last_error, _auth_state, calc,
                            stored, rc, ret >>
       ELSE LET out == OnApiError(caller, Self)
            IN  /\ pc' = AfterCall
                /\ rc' = [kind |-> "OneEdgeApiError", results |-> <<>>]
                /\ ret' = out.ret
                /\ Commit(out.st)
                /\ UNCHANGED retry_count
    /\ UNCHANGED << now, ticks, sleeps, caller, cmds, payload, start,
                    received, drv >>

\* asyncio.sleep(RETRY_DELAY), then the next iteration of the loop.
Sleep ==
    /\ pc = "sleep"
    /\ now' = now + RETRY_DELAY
    /\ sleeps' = sleeps + 1
    /\ retry_count' = retry_count + 1
    /\ pc' = "post"
    /\ UNCHANGED << _session_cache, _last_error, _auth_state, ticks,
                    caller, cmds, payload, start, calc, stored, posts,
                    received, rc, ret, drv >>

\* response.json() delivers a JSON object: break, _process_response, and the
\* caller's statements up to its return.
RespondWith(response_data) ==
    /\ pc = "await"
    /\ LET p == ProcessResponse(Self, response_data, cmds, now)
           out == IF p.raised # ""
                  THEN Out(p.st, Raised(caller, p.raised))
                  ELSE OnResults(caller, p.st, p.results, now)
       IN  /\ received' = Some(response_data)
           /\ rc' = IF p.raised # ""
                    THEN [kind |-> p.raised, results |-> <<>>]
                    ELSE [kind |-> "return", results |-> p.results]
           /\ ret' = out.ret
           /\ Commit(out.st)
    /\ posts' = Settle("response")
    /\ pc' = AfterCall
    /\ UNCHANGED << now, ticks, sleeps, caller, cmds, payload, retry_count,
                    start, drv >>

Respond ==
    /\ pc = "await"
    /\ \E response_data \in Responses(cmds) : RespondWith(response_data)

\* api.session_id = value, from outside the client
AssignSessionId ==
    /\ pc = "idle"
    /\ \E v \in OptSession : Commit(SetSessionId(Self, v, now))
    /\ ForgetCall
    /\ ret' = Pending("none")
    /\ UNCHANGED << now, ticks, sleeps, pc, drv >>

\* api.last_error = value, from outside the client
AssignLastError ==
    /\ pc = "idle"
    /\ \E v \in OptError : Commit(SetLastError(Self, v, now))
    /\ ForgetCall
    /\ ret' = Pending("none")
    /\ UNCHANGED << now, ticks, sleeps, pc, drv >>

\* authenticate(api): after a failed login with last_error = -90041 the
\* driver assigns api.auth_state = WAITING_FOR_MFA.
AssignWaitingForMfa ==
    /\ pc = "idle"
    /\ ret.op = "authenticate" /\ ret.kind = "return" /\ ret.value = FALSE
    /\ _last_error = Some(MFA_REQUIRED)
    /\ Commit(SetAuthState(Self, WAITING_FOR_MFA))
    /\ ForgetCall
    /\ ret' = Pending("none")
    /\ UNCHANGED << now, ticks, sleeps, pc, drv >>

\* Time passes.
Tick ==
    /\ pc = "idle"
    /\ ticks < MaxTicks
    /\ \E d \in TickDeltas : now' = now + d
    /\ ticks' = ticks + 1
    /\ ForgetCall
    /\ ret' = Pending("none")
    /\ UNCHANGED << _session_cache, _last_error, _auth_state, sleeps, pc,
                    calc, stored, drv >>

Next ==
    \/ CallRunCommands
    \/ CallRunCommand
    \/ CallAuthenticate
    \/ CallVerifyAuthState
    \/ Post
    \/ TransportFailure
    \/ Sleep
    \/ Respond
    \/ AssignSessionId
    \/ AssignLastError
    \/ AssignWaitingForMfa
    \/ Tick

Spec == Init /\ [][Next]_vars

-----------------------------------------------------------------------------
(* Starting states of the operations layered on the client *)

\* The client's fields after __init__.
Fresh ==
    [cache |-> EmptyCache, last_error |-> None,
     auth_state |-> NOT_AUTHENTICATED,
     calc |-> [session |-> None, last_error |-> None,
               result |-> NOT_AUTHENTICATED],
     stored |-> [at |-> 0, value |-> None, set |-> FALSE]]

\* A client in state st on which no call has been made.
InitClient(st) ==
    /\ _session_cache = st.cache
    /\ _last_error = st.last_error
    /\ _auth_state = st.auth_state
    /\ calc = st.calc
    /\ stored = st.stored
    /\ now = 0
    /\ ticks = 0
    /\ sleeps = 0
    /\ pc = "idle"
    /\ caller = "none"
    /\ cmds = <<>>
    /\ payload = <<>>
    /\ retry_count = 0
    /\ start = None
    /\ posts = <<>>
    /\ received = None
    /\ rc = NoCall
    /\ ret = Pending("none")
    /\ drv = NoDriver

\* The client after __init__ and an optional api.session_id = s.
WithSession(s) == IF s = None THEN Fresh ELSE SetSessionId(Fresh, s, 0)

-----------------------------------------------------------------------------
(* run_iterated_command *)

\* Mutant of MorePages: the loop runs once more.
MorePages_OneMore(iteration) == iteration <= ITERATION_LIMIT

\* for iteration in range(ITERATION_LIMIT): is there an iteration numbered so?
MorePages(iteration) == iteration < ITERATION_LIMIT

\* Mutant of PageFailed: the error codes are tested, not the success flag.
PageFailed_ByErrorCodes(result) ==
    "errorCodes" \in DOMAIN result /\ result["errorCodes"] # <<>>

\* if not result['success']
PageFailed(result) == ~result["success"]

\* results.extend(result['params']['result'])
Extend(results, result) == results \o result["params"]["result"]

\* Mutant of NextCursor: the cursor of the first request is kept.
NextCursor_Kept(cmd, result) == cmd

\* cmd['params']['iterator'] = result['params']['iterator']
NextCursor(cmd, result) ==
    [cmd EXCEPT !.params = Update(@, [iterator |-> result["params"]["iterator"]])]

\* The clock in half seconds; h is the pending half second.
HalfSeconds(t, h) == 2 * t + h

\* The request for the next page as the driver records it.
PageRequest(cmd, t, h) ==
    [iterator |-> cmd.params.iterator, at |-> HalfSeconds(t, h)]

\* run_iterated_command(cmd) up to the first POST of its first page.
CallRunIterated ==
    /\ pc = "idle"
    /\ drv = NoDriver
    /\ \E given \in IterCommands :
          LET cmd == [given EXCEPT !.params = Update(@, IterParams)]
          IN  /\ drv' = [op |-> "run_iterated_command", cmd |-> cmd,
                         iteration |-> 0, results |-> <<>>,
                         log |-> <<PageRequest(cmd, now, 0)>>,
                         pages |-> <<>>, processed |-> <<>>, half |-> 0,
                         logged |-> ""]
              /\ BeginCall("run_command", "1" :> cmd)
    /\ UNCHANGED << _session_cache, _last_error, _auth_state, now, ticks,
                    sleeps, calc, stored >>

\* The operation ends: nothing of the client changes any more.
DriverEnds(r) ==
    /\ pc' = "idle"
    /\ ret' = r
    /\ UNCHANGED << _session_cache, _last_error, _auth_state, now, ticks,
                    sleeps, caller, cmds, payload, retry_count, start, calc,
                    stored, posts, received, rc >>

\* The statements after await self.run_command(cmd), up to the sleep.
IterResume ==
    /\ pc = "resume"
    /\ drv.op = "run_iterated_command"
    /\ IF ret.kind # "return"
       THEN /\ drv' = drv
            /\ DriverEnds(Raised(drv.op, ret.kind))
       ELSE LET result == ret.value
                seen == [drv EXCEPT !.pages = Append(@, result),
                                    !.processed = Append(@, HalfSeconds(now, drv.half))]
            IN  IF PageFailed(result)
                THEN /\ drv' = [seen EXCEPT !.logged = "Iterated command unsuccessful"]
                     /\ DriverEnds(Returned(drv.op, drv.results))
                ELSE IF \/ "params" \notin DOMAIN result
                        \/ "result" \notin DOMAIN result["params"]
                        \/ "iterator" \notin DOMAIN result["params"]
                THEN /\ drv' = seen
                     /\ DriverEnds(Raised(drv.op, "KeyError"))
                ELSE /\ drv' = [seen EXCEPT !.results = Extend(@, result),
                                            !.cmd = NextCursor(@, result)]
                     /\ pc' = "pagesleep"
                     /\ UNCHANGED << _session_cache, _last_error, _auth_state,
                                     now, ticks, sleeps, caller, cmds, payload,
                                     retry_count, start, calc, stored, posts,
                                     received, rc, ret >>

\* await asyncio.sleep(0.5)
PageSleep ==
    /\ pc = "pagesleep"
    /\ drv' = [drv EXCEPT !.half = 1 - @, !.iteration = @ + 1]
    /\ now' = now + drv.half
    /\ pc' = "nextpage"
    /\ UNCHANGED << _session_cache, _last_error, _auth_state, ticks, sleeps,
                    caller, cmds, payload, retry_count, start, calc, stored,
                    posts, received, rc, ret >>

\* The head of the loop: the next page is requested, or the limit is logged
\* and the results are returned.
NextPage ==
    /\ pc = "nextpage"
    /\ IF MorePages(drv.iteration)
       THEN /\ drv' = [drv EXCEPT !.log = Append(@, PageRequest(drv.cmd, now, drv.half))]
            /\ BeginCall("run_command", "1" :> drv.cmd)
            /\ UNCHANGED << _session_cache, _last_error, _auth_state, now,
                            ticks, sleeps, calc, stored >>
       ELSE /\ drv' = [drv EXCEPT !.logged = "Reached maximum iteration limit"]
            /\ DriverEnds(Returned(drv.op, drv.results))

\* What the server answers once it has stopped varying: the same page
\* with the cursor it was sent, or a failure.
SteadyResponses(c) ==
    { "1" :> [success |-> TRUE,
              params |-> [result |-> <<"a">>, iterator |-> c["1"].params.iterator]],
      "1" :> [success |-> FALSE, errorCodes |-> <<SESSION_EXPIRED>>] }

\* The server answers a page request; it varies its answers on the first
\* MaxFreePages pages only.
PageRespond ==
    /\ pc = "await"
    /\ Respond
    /\ Len(drv.log) > MaxFreePages => received' \in {Some(r) : r \in SteadyResponses(cmds)}

\* The transport fails on the first MaxFreePages pages only.
PageTransportFailure ==
    /\ pc = "await"
    /\ Len(drv.log) <= MaxFreePages
    /\ TransportFailure

InitIter == \E s \in OptSession : InitClient(WithSession(s))

NextIter ==
    \/ CallRunIterated
    \/ Post
    \/ PageTransportFailure
    \/ Sleep
    \/ PageRespond
    \/ IterResume
    \/ PageSleep
    \/ NextPage

SpecIter == InitIter /\ [][NextIter]_vars

-----------------------------------------------------------------------------
(* Properties *)

\* The derivation of the auth state from (session, last_error), as specified.
DerivedAuthState(session, last_error) ==
    IF session # None THEN AUTHENTICATED
    ELSE IF last_error = Some(-90041) THEN WAITING_FOR_MFA
    ELSE NOT_AUTHENTICATED

Finished == pc = "idle" /\ caller # "none"
TopIsFalse(response) == "success" \in DOMAIN response /\ response["success"] = FALSE
Synthetic == {"success", "errorCodes"}

\* C1: in every reachable state the observable auth_state equals the
\* derivation from the session as it reads now and last_error.
C1_AuthStateIsDerived ==
    _auth_state = DerivedAuthState(session_id, _last_error)

\* C2: every evaluation of _calculate_auth_state returns AUTHENTICATED for a
\* non-null session whatever last_error is, WAITING_FOR_MFA for a null
\* session with last_error -90041, and NOT_AUTHENTICATED for a null session
\* with any other last_error.
C2_CalculateAuthState ==
    /\ calc.session # None => calc.result = AUTHENTICATED
    /\ calc.session = None /\ calc.last_error = Some(-90041)
          => calc.result = WAITING_FOR_MFA
    /\ calc.session = None /\ calc.last_error # Some(-90041)
          => calc.result = NOT_AUTHENTICATED

\* A session was present although last_error was the MFA code.
C2_Witness ==
    /\ calc.session # None
    /\ calc.last_error = Some(-90041)
    /\ calc.result = AUTHENTICATED

\* C3: a session identifier stored at time T reads back as that identifier
\* at every time before T + 28800 and as absent from T + 28800 on.
C3_SessionTtl ==
    stored.set =>
        session_id = IF now < stored.at + 28800 THEN stored.value ELSE None

\* An identifier is read as absent exactly 28800 s after it was stored.
C3_Witness ==
    /\ stored.set
    /\ stored.value # None
    /\ now = stored.at + 28800
    /\ session_id = None

NoPostAfterResponse ==
    received # None =>
        /\ pc = "idle"
        /\ posts[Len(posts)].outcome = "response"
        /\ \A i \in 1..(Len(posts) - 1) : posts[i].outcome = "failed"

\* The error codes a response reports: the top-level list when the top level
\* failed, else the list of the first submitted key whose entry carries one.
ReportedCodes(response, c) ==
    IF TopIsFalse(response) /\ "errorCodes" \in DOMAIN response
    THEN response["errorCodes"]
    ELSE LET bad == { i \in 1..MaxBatch :
                        /\ Key(i) \in DOMAIN c \cap DOMAIN response
                        /\ "errorCodes" \in DOMAIN response[Key(i)]
                        /\ response[Key(i)]["errorCodes"] # <<>> }
         IN  IF bad = {} THEN <<>>
             ELSE response[Key(CHOOSE i \in bad : \A j \in bad : i <= j)]["errorCodes"]

\* C5: once run_commands has received a response it issues no further POST,
\* and an error the response reports (at the top level or in an entry) is in
\* the returned result and in last_error.
C5_NoRetrySurfaced ==
    /\ NoPostAfterResponse
    /\ (Finished /\ caller \in {"run_commands", "run_command"}
          /\ rc.kind = "return" /\ ReportedCodes(received[1], cmds) # <<>>)
       => /\ \/ rc.results["errorCodes"] = ReportedCodes(received[1], cmds)
             \/ \E k \in DOMAIN cmds \cap DOMAIN rc.results :
                   /\ "errorCodes" \in DOMAIN rc.results[k]
                   /\ rc.results[k]["errorCodes"] = ReportedCodes(received[1], cmds)
          /\ _last_error # None

\* C6: when the response's top-level success is false every submitted key maps
\* to {success: false, errorCodes: <top-level errorCodes>} in the result;
\* otherwise the result's top level has success = true and errorCodes = [].
C6_UniformFailure ==
    rc.kind = "return" =>
        IF TopIsFalse(received[1])
        THEN \A k \in DOMAIN cmds :
                /\ k \in DOMAIN rc.results
                /\ rc.results[k] = [success |-> FALSE,
                                    errorCodes |-> received[1]["errorCodes"]]
        ELSE /\ rc.results["success"] = TRUE
             /\ rc.results["errorCodes"] = <<>>

\* A failed top level was propagated to a key the response did not hold.
C6_Witness ==
    /\ rc.kind = "return"
    /\ TopIsFalse(received[1])
    /\ received[1]["errorCodes"] # <<>>
    /\ Cardinality(DOMAIN cmds) = 2
    /\ DOMAIN cmds \cap DOMAIN received[1] = {}

\* C7 as stated: the key set of every returned result is the key set of the
\* submitted batch plus success and errorCodes.
C7_ExactKeys ==
    rc.kind = "return" => DOMAIN rc.results = DOMAIN cmds \cup Synthetic

\* C7 (amended): the key set of the result is the key set of the response
\* plus success and errorCodes, plus every submitted key when the top-level
\* success is false; it is the submitted keys plus the two synthetic keys
\* whenever the response holds entries for exactly the submitted keys.
C7_KeysFollowResponse ==
    rc.kind = "return" =>
        /\ DOMAIN rc.results =
              DOMAIN received[1] \cup Synthetic
                 \cup (IF TopIsFalse(received[1]) THEN DOMAIN cmds ELSE {})
        /\ (DOMAIN received[1] \ Synthetic = DOMAIN cmds
               => DOMAIN rc.results = DOMAIN cmds \cup Synthetic)

\* A response with entries for both submitted keys gave a result with exactly
\* those keys and the synthetic ones.
C7_Witness ==
    /\ rc.kind = "return"
    /\ Cardinality(DOMAIN cmds) = 2
    /\ DOMAIN received[1] = DOMAIN cmds
    /\ DOMAIN rc.results = DOMAIN cmds \cup Synthetic

\* The first error code of the batch: of the top level of the result, else
\* of the first submitted key whose entry failed.
FirstBatchError(results, c) ==
    IF results["errorCodes"] # <<>> THEN Some(Head(results["errorCodes"]))
    ELSE LET bad == { i \in 1..MaxBatch :
                        /\ Key(i) \in DOMAIN c \cap DOMAIN results
                        /\ ~results[Key(i)]["success"]
                        /\ "errorCodes" \in DOMAIN results[Key(i)]
                        /\ results[Key(i)]["errorCodes"] # <<>> }
         IN  IF bad = {} THEN None
             ELSE Some(Head(results[Key(CHOOSE i \in bad : \A j \in bad : i <= j)]["errorCodes"]))

\* C8: after a run_commands call that received a response last_error is the
\* first error code of the batch if a command failed (at the top level or in
\* its own entry) and None if none failed.
C8_LastErrorFromBatch ==
    (Finished /\ caller \in {"run_commands", "run_command"} /\ rc.kind = "return")
        => _last_error = FirstBatchError(rc.results, cmds)

\* C9: every POST of a non-login call carries auth = {sessionId: the session
\* read when the call started} and every submitted key unchanged; every POST
\* of a login carries auth = {command: api.authenticate, params: {username,
\* password}} and no sessionId.
C9_WirePayload ==
    \A i \in 1..Len(posts) :
        LET p == posts[i].payload
        IN  IF caller = "authenticate"
            THEN /\ DOMAIN p = {"auth"}
                 /\ \E u \in Usernames, pw \in Passwords :
                       p["auth"] = [command |-> "api.authenticate",
                                    params |-> [username |-> u, password |-> pw]]
            ELSE /\ DOMAIN p = DOMAIN cmds \cup {"auth"}
                 /\ p["auth"] = [sessionId |-> start]
                 /\ \A k \in DOMAIN cmds : p[k] = cmds[k]

\* A retried POST still carries the session read at the start of the call,
\* although the session has expired since.
C9_Witness ==
    /\ caller = "run_commands"
    /\ Len(posts) >= 2
    /\ Cardinality(DOMAIN cmds) = 2
    /\ start # None
    /\ session_id = None
    /\ posts[Len(posts)].payload["auth"] = [sessionId |-> start]

\* C10: run_command submits exactly one command under key "1"; it returns the
\* entry under "1" when the result has one and the full result otherwise, and
\* an OneEdgeApiError of run_commands is raised to its caller.
C10_RunCommand ==
    caller = "run_command" =>
        /\ DOMAIN cmds = {"1"}
        /\ cmds["1"] \in SingleCommands
        /\ \A i \in 1..Len(posts) : posts[i].payload["1"] = cmds["1"]
        /\ rc.kind = "return" =>
              /\ ret.kind = "return"
              /\ ret.value = IF "1" \in DOMAIN rc.results
                             THEN rc.results["1"] ELSE rc.results
        /\ rc.kind = "OneEdgeApiError" => ret.kind = "OneEdgeApiError"

\* run_command fell back to the full result because it had no "1" entry.
C10_Witness ==
    /\ caller = "run_command"
    /\ rc.kind = "return"
    /\ "1" \notin DOMAIN rc.results
    /\ ret.value = rc.results

-----------------------------------------------------------------------------
(* verify_auth_state and close_session on a client holding any session *)

\* The values the session may hold when the client is handed over: none,
\* a token, and the strings verify_auth_state treats as no session.
SessionValues == OptSession \cup {Some(""), Some("None"), Some("null")}

\* close_session() up to its first POST.
CallCloseSession == Enter("close_session", "1" :> SessionEnd(session_id))

InitSession == \E s \in SessionValues : InitClient(WithSession(s))

NextSession ==
    \/ CallVerifyAuthState
    \/ CallCloseSession
    \/ Tick
    \/ Post
    \/ TransportFailure
    \/ Sleep
    \/ Respond

SpecSession == InitSession /\ [][NextSession]_vars

-----------------------------------------------------------------------------
(* OneEdgeApi.authenticate_user *)

KeepClient == UNCHANGED << _session_cache, _last_error, _auth_state, calc, stored >>
KeepCall ==
    UNCHANGED << caller, cmds, payload, retry_count, start, posts, received, rc >>
KeepTime == UNCHANGED << now, ticks, sleeps >>

\* The credentials the drivers are given; the empty string is a missing one.
Credentials ==
    { [username |-> "user", password |-> "pw"],
      [username |-> "", password |-> "pw"] }

\* for attempt in range(self.MAX_RETRIES): is there an attempt numbered so?
AttemptsLeft(attempt) == attempt < MAX_RETRIES

\* The driver's record of a login it is about to submit.
Login(attempt, username, password, t) ==
    [attempt |-> attempt, username |-> username, password |-> password,
     at |-> t, state |-> _auth_state]

\* The driver's record of how the login it awaited ended.
Seen(d) ==
    [d EXCEPT !.seen = Append(@, [kind |-> ret.kind, value |-> ret.value,
                                  last_error |-> _last_error])]

\* authenticate_user returns or raises: to its caller if it has one.
AuthUserEndsWith(d, r) ==
    /\ ret' = r
    /\ IF drv.op = "authenticate_user"
       THEN /\ pc' = "idle"
            /\ drv' = [d EXCEPT !.at = "done"]
       ELSE /\ pc' = "drive"
            /\ drv' = [d EXCEPT !.at = "authenticated"]

AuthUserEnds(r) == AuthUserEndsWith(drv, r)

AuthUserRuns == drv.op \in {"authenticate_user", "execute_command"}

\* authenticate_user(username, password) is called.
CallAuthenticateUser ==
    /\ pc = "idle"
    /\ drv = NoDriver
    /\ \E given \in Credentials :
          drv' = [op |-> "authenticate_user", username |-> given.username,
                  password |-> given.password, attempt |-> 0, at |-> "head",
                  logins |-> <<>>, seen |-> <<>>, waits |-> <<>>,
                  entered |-> _auth_state]
    /\ pc' = "drive"
    /\ ret' = Pending("authenticate_user")
    /\ KeepClient /\ KeepCall /\ KeepTime

\* The API calls of one execute_command invocation, in the order they are
\* entered; the other drivers keep no such list.
Called(d, op) ==
    IF "calls" \in DOMAIN d THEN [d EXCEPT !.calls = Append(@, op)] ELSE d

\* The head of the loop and the condition of its if: the state is tested,
\* then _attempt_authentication is entered up to its await.
AuthUserHead ==
    /\ pc = "drive" /\ AuthUserRuns /\ drv.at = "head"
    /\ IF ~AttemptsLeft(drv.attempt)
       THEN /\ AuthUserEnds(Returned("authenticate_user", FALSE))
            /\ KeepClient /\ KeepCall /\ KeepTime
       ELSE IF _auth_state = AUTHENTICATED
       THEN /\ drv' = [drv EXCEPT !.at = "verify"]
            /\ UNCHANGED << pc, ret >>
            /\ KeepClient /\ KeepCall /\ KeepTime
       ELSE IF drv.username = "" \/ drv.password = ""
       THEN /\ drv' = [drv EXCEPT !.at = "sleep"]
            /\ UNCHANGED << pc, ret >>
            /\ KeepClient /\ KeepCall /\ KeepTime
       ELSE /\ drv' = [Called(drv, "authenticate")
                             EXCEPT !.at = "login",
                                    !.logins = Append(@, Login(drv.attempt, drv.username,
                                                               drv.password, now))]
            /\ BeginCall("authenticate", AuthPayload(drv.username, drv.password))
            /\ KeepClient /\ KeepTime

\* self.authenticate(username, password) has returned or raised.
AuthUserAfterLogin ==
    /\ pc = "resume" /\ AuthUserRuns /\ drv.at = "login"
    /\ IF ret.kind # "return"
       THEN AuthUserEndsWith(Seen(drv), Raised("authenticate_user", ret.kind))
       ELSE /\ drv' = [Seen(drv) EXCEPT !.at = IF ret.value THEN "verify" ELSE "sleep"]
            /\ pc' = "drive"
            /\ UNCHANGED ret
    /\ KeepClient /\ KeepCall /\ KeepTime

\* _verify_auth_state up to the await inside verify_auth_state, or to its
\* return when there is no usable session.
AuthUserVerify ==
    /\ pc = "drive" /\ AuthUserRuns /\ drv.at = "verify"
    /\ IF Unusable(session_id)
       THEN /\ VerifyLocal
            /\ AuthUserEnds(Returned("authenticate_user", FALSE))
       ELSE /\ BeginCall("verify_auth_state", "1" :> SessionInfo)
            /\ drv' = [Called(drv, "verify_auth_state") EXCEPT !.at = "verifying"]
            /\ KeepClient
    /\ KeepTime

\* verify_auth_state has returned or raised: OneEdgeApiError is caught.
AuthUserAfterVerify ==
    /\ pc = "resume" /\ AuthUserRuns /\ drv.at = "verifying"
    /\ IF ret.kind = "return"
       THEN AuthUserEnds(Returned("authenticate_user", _auth_state = AUTHENTICATED))
       ELSE IF ret.kind = "OneEdgeApiError"
       THEN AuthUserEnds(Returned("authenticate_user", FALSE))
       ELSE AuthUserEnds(Raised("authenticate_user", ret.kind))
    /\ KeepClient /\ KeepCall /\ KeepTime

\* await asyncio.sleep(self.RETRY_DELAY), then the next attempt.
AuthUserSleep ==
    /\ pc = "drive" /\ AuthUserRuns /\ drv.at = "sleep"
    /\ now' = now + RETRY_DELAY
    /\ drv' = [drv EXCEPT !.at = "head", !.attempt = @ + 1,
                          !.waits = Append(@, RETRY_DELAY)]
    /\ UNCHANGED << ticks, sleeps, pc, ret >>
    /\ KeepClient /\ KeepCall

-----------------------------------------------------------------------------
(* authenticate(api), the interactive driver *)

max_attempts == 3
delay == 5
MfaCodes == {"123456"}

AuthApiRuns == drv.op = "authenticate(api)"

\* The driver raises: nothing is logged.
AuthApiRaisesWith(d, e) ==
    /\ pc' = "idle"
    /\ ret' = Raised("authenticate(api)", e)
    /\ drv' = [d EXCEPT !.at = "done"]

AuthApiRaises(e) == AuthApiRaisesWith(drv, e)

\* authenticate(api) is called: an authenticated client is verified first.
CallAuthenticateApi ==
    /\ pc = "idle"
    /\ drv = NoDriver
    /\ \E given \in Credentials :
          LET d == [op |-> "authenticate(api)", username |-> given.username,
                    password |-> given.password, attempts |-> 0,
                    at |-> "while", logins |-> <<>>, seen |-> <<>>,
                    waits |-> <<>>,
                    mfa_code |-> None, logged |-> ""]
          IN  IF _auth_state # AUTHENTICATED
              THEN /\ drv' = d
                   /\ pc' = "drive"
                   /\ ret' = Pending("authenticate(api)")
                   /\ KeepClient /\ KeepCall
              ELSE IF Unusable(session_id)
              THEN /\ drv' = d
                   /\ pc' = "drive"
                   /\ ret' = Pending("authenticate(api)")
                   /\ VerifyLocal
              ELSE /\ drv' = [d EXCEPT !.at = "verifying"]
                   /\ BeginCall("verify_auth_state", "1" :> SessionInfo)
                   /\ KeepClient
    /\ KeepTime

\* api.verify_auth_state() has returned or raised; it is not in a try.
AuthApiAfterVerify ==
    /\ pc = "resume" /\ AuthApiRuns /\ drv.at = "verifying"
    /\ IF ret.kind = "return"
       THEN /\ drv' = [drv EXCEPT !.at = "while"]
            /\ pc' = "drive"
            /\ UNCHANGED ret
       ELSE AuthApiRaises(ret.kind)
    /\ KeepClient /\ KeepCall /\ KeepTime

\* The while condition and the body up to the await of api.authenticate;
\* when the loop ends the outcome is logged and the driver returns None.
AuthApiWhile ==
    /\ pc = "drive" /\ AuthApiRuns /\ drv.at = "while"
    /\ IF _auth_state # AUTHENTICATED /\ drv.attempts < max_attempts
       THEN IF _auth_state # NOT_AUTHENTICATED
            THEN /\ drv' = [drv EXCEPT !.at = "delay"]
                 /\ UNCHANGED << pc, ret >>
                 /\ KeepCall
            ELSE IF drv.username = "" \/ drv.password = ""
            THEN /\ drv' = [drv EXCEPT !.at = "end"]
                 /\ UNCHANGED << pc, ret >>
                 /\ KeepCall
            ELSE /\ drv' = [drv EXCEPT !.at = "login",
                                       !.logins = Append(@, Login(drv.attempts, drv.username,
                                                                  drv.password, now))]
                 /\ BeginCall("authenticate", AuthPayload(drv.username, drv.password))
       ELSE /\ drv' = [drv EXCEPT !.at = "end"]
            /\ UNCHANGED << pc, ret >>
            /\ KeepCall
    /\ KeepClient /\ KeepTime

\* api.authenticate(username, password) has returned or raised; then
\* asyncio.sleep(1) and the branches on the result and on last_error, up to
\* the end of asyncio.sleep(2) on the MFA branch.
AuthApiAfterLogin ==
    /\ pc = "resume" /\ AuthApiRuns /\ drv.at = "login"
    /\ IF ret.kind # "return"
       THEN /\ AuthApiRaisesWith(Seen(drv), ret.kind)
            /\ KeepClient /\ UNCHANGED now
       ELSE IF ret.value
       THEN /\ drv' = [Seen(drv) EXCEPT !.at = "delay"]
            /\ now' = now + 1
            /\ pc' = "drive"
            /\ KeepClient /\ UNCHANGED ret
       ELSE IF _last_error = Some(MFA_REQUIRED)
       THEN /\ Commit(SetAuthState(Self, WAITING_FOR_MFA))
            /\ \E code \in MfaCodes :
                  drv' = [Seen(drv) EXCEPT !.at = "mfa",
                                    !.mfa_code = IF @ = None THEN Some(code) ELSE @]
            /\ now' = now + 1 + 2
            /\ pc' = "drive"
            /\ UNCHANGED ret
       ELSE IF _last_error = Some(SESSION_EXPIRED)
       THEN /\ AuthApiRaisesWith(Seen(drv), "AttributeError")
            /\ now' = now + 1
            /\ KeepClient
       ELSE /\ drv' = [Seen(drv) EXCEPT !.at = "end"]
            /\ now' = now + 1
            /\ pc' = "drive"
            /\ KeepClient /\ UNCHANGED ret
    /\ KeepCall /\ UNCHANGED << ticks, sleeps >>

\* await api.authenticate(username, mfa_code)
AuthApiMfaLogin ==
    /\ pc = "drive" /\ AuthApiRuns /\ drv.at = "mfa"
    /\ drv' = [drv EXCEPT !.at = "mfa_login",
                          !.logins = Append(@, Login(drv.attempts, drv.username,
                                                     drv.mfa_code[1], now))]
    /\ BeginCall("authenticate", AuthPayload(drv.username, drv.mfa_code[1]))
    /\ KeepClient /\ KeepTime

\* The MFA login has returned or raised; then asyncio.sleep(1).
AuthApiAfterMfaLogin ==
    /\ pc = "resume" /\ AuthApiRuns /\ drv.at = "mfa_login"
    /\ IF ret.kind # "return"
       THEN /\ AuthApiRaisesWith(Seen(drv), ret.kind)
            /\ UNCHANGED now
       ELSE /\ drv' = [Seen(drv) EXCEPT !.at = "delay"]
            /\ now' = now + 1
            /\ pc' = "drive"
            /\ UNCHANGED ret
    /\ KeepClient /\ KeepCall /\ UNCHANGED << ticks, sleeps >>

\* attempts += 1; await asyncio.sleep(delay)
AuthApiDelay ==
    /\ pc = "drive" /\ AuthApiRuns /\ drv.at = "delay"
    /\ drv' = [drv EXCEPT !.at = "while", !.attempts = @ + 1,
                          !.waits = Append(@, delay)]
    /\ now' = now + delay
    /\ UNCHANGED << ticks, sleeps, pc, ret >>
    /\ KeepClient /\ KeepCall

\* After the loop: the outcome is logged, None is returned.
AuthApiEnd ==
    /\ pc = "drive" /\ AuthApiRuns /\ drv.at = "end"
    /\ drv' = [drv EXCEPT !.at = "done",
                          !.logged = IF _auth_state = AUTHENTICATED
                                     THEN "Successfully authenticated with the OneEdge API."
                                     ELSE "Failed to authenticate with the OneEdge API."]
    /\ pc' = "idle"
    /\ ret' = Returned("authenticate(api)", None)
    /\ KeepClient /\ KeepCall /\ KeepTime

InitAuth == \E s \in OptSession : InitClient(WithSession(s))

NextAuth ==
    \/ CallAuthenticateUser
    \/ AuthUserHead
    \/ AuthUserAfterLogin
    \/ AuthUserVerify
    \/ AuthUserAfterVerify
    \/ AuthUserSleep
    \/ CallAuthenticateApi
    \/ AuthApiAfterVerify
    \/ AuthApiWhile
    \/ AuthApiAfterLogin
    \/ AuthApiMfaLogin
    \/ AuthApiAfterMfaLogin
    \/ AuthApiDelay
    \/ AuthApiEnd
    \/ Post
    \/ TransportFailure
    \/ Sleep
    \/ Respond

SpecAuth == InitAuth /\ [][NextAuth]_vars

-----------------------------------------------------------------------------
(* execute_command and its helpers in bulk_changes.py *)

\* What command_func hands back: the empty batch or a batch of one command.
CommandBatches == { c \in Batches : Cardinality(DOMAIN c) <= 1 }

\* What command_func() does when it is awaited.  The CLI operations wrap
\* their reader and builder in try/except Exception and return None on any
\* error ("data_error": the spreadsheet could not be read or the builder
\* rejected its lists); a command_func may also return an empty or a
\* non-empty batch, or raise.
CommandFuncs ==
    { [kind |-> "returns", commands |-> c] : c \in CommandBatches }
        \cup { [kind |-> "data_error", commands |-> <<>>],
               [kind |-> "raises", commands |-> <<>>] }

ExecRuns == drv.op = "execute_command"

Log(d, message) == [d EXCEPT !.logged = Append(@, message)]

\* execute_command(command_func) is called: authenticate_user() builds a
\* new client and reads the credentials.
CallExecuteCommand ==
    /\ pc = "idle"
    /\ drv = NoDriver
    /\ \E given \in Credentials, command_func \in CommandFuncs :
          drv' = [op |-> "execute_command", username |-> given.username,
                  password |-> given.password, attempt |-> 0, at |-> "head",
                  logins |-> <<>>, seen |-> <<>>, waits |-> <<>>,
                  command_func |-> command_func, api |-> FALSE, auth |-> None,
                  published |-> <<>>, result |-> None, logged |-> <<>>,
                  calls |-> <<>>]
    /\ pc' = "drive"
    /\ ret' = Pending("execute_command")
    /\ KeepClient /\ KeepCall /\ KeepTime

\* api.authenticate_user(...) has returned or raised inside
\* authenticate_user(); its value is dropped.  Then command_func runs and
\* a non-empty batch is handed to process_commands.
ExecAfterAuth ==
    /\ pc = "drive" /\ ExecRuns /\ drv.at = "authenticated"
    /\ IF ret.kind # "return"
       THEN /\ drv' = [Log(drv, "An error occurred")
                         EXCEPT !.at = "finally", !.logins = <<>>,
                                !.seen = <<>>, !.waits = <<>>]
            /\ UNCHANGED << pc, ret >>
            /\ KeepCall
       ELSE LET d == [Log(drv, "User authenticated successfully.")
                        EXCEPT !.api = TRUE, !.auth = Some(ret.value),
                               !.logins = <<>>, !.seen = <<>>, !.waits = <<>>]
            IN  IF d.command_func.kind = "raises"
                THEN /\ drv' = [Log(d, "An error occurred") EXCEPT !.at = "finally"]
                     /\ UNCHANGED << pc, ret >>
                     /\ KeepCall
                ELSE IF d.command_func.commands # <<>>
                THEN /\ drv' = [Called(d, "run_commands")
                                  EXCEPT !.at = "publishing",
                                         !.published = Append(@, d.command_func.commands)]
                     /\ BeginCall("run_commands", d.command_func.commands)
                ELSE /\ drv' = [Log(d, "Command execution returned no result.")
                                  EXCEPT !.at = "finally"]
                     /\ UNCHANGED << pc, ret >>
                     /\ KeepCall
    /\ KeepClient /\ KeepTime

\* return result: the try block is left for the finally block.
AfterResult_PublishAgain == "authenticated"
AfterResult == "finally"

\* process_commands has returned or raised: any exception is logged and
\* turned into None.
ExecAfterPublish ==
    /\ pc = "resume" /\ ExecRuns /\ drv.at = "publishing"
    /\ drv' = IF ret.kind = "return"
              THEN [Log(drv, "Commands published successfully.")
                      EXCEPT !.at = AfterResult, !.result = Some(ret.value)]
              ELSE [Log(drv, "An error occurred") EXCEPT !.at = "finally"]
    /\ pc' = "drive"
    /\ UNCHANGED ret
    /\ KeepClient /\ KeepCall /\ KeepTime

\* The test of the finally block: api was assigned, that is
\* authenticate_user() returned the client.
ApiAssigned_WhenPublished(d) == d.api /\ d.result # None
ApiAssigned(d) == d.api

\* finally: if api: close_api_session(api), else the result is returned.
ExecFinally ==
    /\ pc = "drive" /\ ExecRuns /\ drv.at = "finally"
    /\ IF ApiAssigned(drv)
       THEN /\ drv' = [Called(drv, "close_session") EXCEPT !.at = "closing"]
            /\ BeginCall("close_session", "1" :> SessionEnd(session_id))
       ELSE /\ drv' = [drv EXCEPT !.at = "done"]
            /\ pc' = "idle"
            /\ ret' = Returned("execute_command", drv.result)
            /\ KeepCall
    /\ KeepClient /\ KeepTime

\* close_session has returned or raised inside close_api_session: None has
\* no get (AttributeError), and every exception is raised again, out of the
\* finally block.
ExecAfterClose ==
    /\ pc = "resume" /\ ExecRuns /\ drv.at = "closing"
    /\ IF ret.kind # "return"
       THEN /\ drv' = [Log(drv, "Error closing session") EXCEPT !.at = "done"]
            /\ ret' = Raised("execute_command", ret.kind)
       ELSE IF ret.value = None
       THEN /\ drv' = [Log(drv, "Error closing session") EXCEPT !.at = "done"]
            /\ ret' = Raised("execute_command", "AttributeError")
       ELSE /\ drv' = [Log(drv, "Session closed successfully.") EXCEPT !.at = "done"]
            /\ ret' = Returned("execute_command", drv.result)
    /\ pc' = "idle"
    /\ KeepClient /\ KeepCall /\ KeepTime

InitExec == InitClient(Fresh)

NextExec ==
    \/ CallExecuteCommand
    \/ AuthUserHead
    \/ AuthUserAfterLogin
    \/ AuthUserVerify
    \/ AuthUserAfterVerify
    \/ AuthUserSleep
    \/ ExecAfterAuth
    \/ ExecAfterPublish
    \/ ExecFinally
    \/ ExecAfterClose
    \/ Post
    \/ TransportFailure
    \/ Sleep
    \/ Respond

SpecExec == InitExec /\ [][NextExec]_vars

-----------------------------------------------------------------------------
(* Properties of run_iterated_command, under SpecIter *)

IterActive == drv.op = "run_iterated_command"
IterFinished == IterActive /\ pc = "idle"

\* A page the server delivered in full: success, a result list, a cursor.
FullPage(result) ==
    /\ result["success"]
    /\ "params" \in DOMAIN result
    /\ "result" \in DOMAIN result["params"]
    /\ "iterator" \in DOMAIN result["params"]

\* The result lists of the pages, one after the other.
RECURSIVE Concatenation(_)
Concatenation(pages) ==
    IF pages = <<>> THEN <<>>
    ELSE Head(pages)["params"]["result"] \o Concatenation(Tail(pages))

\* C11: whatever the server answers, run_iterated_command issues at most
\* ITERATION_LIMIT page requests; when the limit is reached it returns all
\* the results accumulated (at most ITERATION_LIMIT pages of the requested
\* size) and has logged a warning, it does not raise.
C11_BoundedPagination ==
    IterActive =>
        /\ Len(drv.log) <= ITERATION_LIMIT
        /\ drv.iteration <= ITERATION_LIMIT
        /\ ( /\ Len(drv.pages) = ITERATION_LIMIT
             /\ FullPage(drv.pages[ITERATION_LIMIT])
             /\ pc \in {"nextpage", "idle"} )
           => /\ pc = "idle" =>
                    /\ ret.kind = "return"
                    /\ ret.value = Concatenation(drv.pages)
                    /\ Len(ret.value) <= ITERATION_LIMIT * IterParams.limit
                    /\ drv.logged = "Reached maximum iteration limit"
              /\ pc = "nextpage" => ~ENABLED (NextPage /\ pc' = "post")

C11_Witness ==
    /\ IterFinished
    /\ Len(drv.pages) = ITERATION_LIMIT
    /\ ret.kind = "return"
    /\ Len(ret.value) > ITERATION_LIMIT
    /\ drv.logged = "Reached maximum iteration limit"

\* The server signalled with page k that there is nothing more to fetch:
\* the page failed, or it has no cursor, or its cursor is the one sent.
NoMorePages(k) ==
    LET result == drv.pages[k]
    IN  \/ ~result["success"]
        \/ "params" \notin DOMAIN result
        \/ "iterator" \notin DOMAIN result["params"]
        \/ result["params"]["iterator"] = drv.log[k].iterator

\* The pages among the first k that carry a result list.
ListedPages(k) ==
    SelectSeq(SubSeq(drv.pages, 1, k),
              LAMBDA result : /\ result["success"]
                              /\ "params" \in DOMAIN result
                              /\ "result" \in DOMAIN result["params"])

\* C12: as soon as a page reports failure, or comes back without a cursor
\* or with the cursor that was sent, no further page is requested and the
\* call returns the results accumulated.
C12_StopsWhenNoMorePages ==
    IterActive =>
        \A k \in 1..Len(drv.pages) :
            NoMorePages(k) =>
                /\ k = Len(drv.pages)
                /\ Len(drv.log) = k
                /\ pc = "idle"
                /\ ret.kind = "return"
                /\ ret.value = Concatenation(ListedPages(k))

\* C13: the first request carries the iterator "new"; the request for page
\* N+1 is issued after page N was processed, half a second later, and
\* carries the iterator page N returned; the request in flight is the one
\* recorded; the list returned is the concatenation of the pages' result
\* lists in request order.
C13_CursorThreading ==
    IterActive =>
        /\ drv.log[1].iterator = "new"
        /\ Len(drv.log) <= Len(drv.pages) + 1
        /\ \A n \in 1..(Len(drv.log) - 1) :
              /\ FullPage(drv.pages[n])
              /\ drv.log[n + 1].iterator = drv.pages[n]["params"]["iterator"]
              /\ drv.log[n + 1].at = drv.processed[n] + 1
        /\ pc \in {"post", "await", "sleep"} =>
              /\ Len(drv.log) = Len(drv.pages) + 1
              /\ payload["1"].params.iterator = drv.log[Len(drv.log)].iterator
        /\ (pc = "idle" /\ ret.kind = "return") =>
              ret.value = Concatenation(ListedPages(Len(drv.pages)))

C13_Witness ==
    /\ IterFinished
    /\ ret.kind = "return"
    /\ Len(drv.log) = ITERATION_LIMIT
    /\ drv.log[2].iterator = "c2"
    /\ drv.log[2].at > 1
    /\ ret.value[1] = "b"
    /\ ret.value[3] = "a"

\* C14: when page k is unsuccessful the call stops, requests nothing more
\* and returns the concatenation of the pages before k, the empty list when
\* k is 1.
C14_StopsOnFailure ==
    IterActive =>
        \A k \in 1..Len(drv.pages) :
            ~drv.pages[k]["success"] =>
                /\ k = Len(drv.pages)
                /\ Len(drv.log) = k
                /\ pc = "idle"
                /\ ret.kind = "return"
                /\ ret.value = Concatenation(SubSeq(drv.pages, 1, k - 1))
                /\ k = 1 => ret.value = <<>>

C14_Witness ==
    /\ IterFinished
    /\ Len(drv.pages) = MaxFreePages + 1
    /\ ~drv.pages[Len(drv.pages)]["success"]
    /\ ret.kind = "return"
    /\ ret.value # <<>>

-----------------------------------------------------------------------------
(* Properties of the authenticator drivers, under SpecAuth *)

AuthDriverRuns == drv.op \in {"authenticate_user", "authenticate(api)"}
AuthDriverDone == AuthDriverRuns /\ pc = "idle" /\ drv.at = "done"

\* The driver told its caller that authentication failed.
FailureReported ==
    /\ ret.kind = "return"
    /\ drv.op = "authenticate_user" => ret.value = FALSE
    /\ drv.op = "authenticate(api)" =>
          drv.logged = "Failed to authenticate with the OneEdge API."

\* C15: whatever the server answers, each authenticator driver makes at
\* most 3 login attempts, waits 5 between one attempt and the next, and,
\* when it ends without an authenticated client, reports the failure.
C15_BoundedAuthentication ==
    AuthDriverRuns =>
        /\ \A i \in 1..Len(drv.logins) : drv.logins[i].attempt < 3
        /\ \A i, j \in 1..Len(drv.logins) :
              drv.logins[i].attempt < drv.logins[j].attempt =>
                  drv.logins[j].at >= drv.logins[i].at + 5
        /\ (AuthDriverDone /\ _auth_state # AUTHENTICATED) => FailureReported

\* The number of the attempt the driver is in.
AttemptNo == IF drv.op = "authenticate(api)" THEN drv.attempts ELSE drv.attempt

\* Login i was made with the password and failed with -90041.
MfaDemanded(i) ==
    /\ drv.logins[i].password = drv.password
    /\ drv.seen[i].kind = "return"
    /\ drv.seen[i].value = FALSE
    /\ drv.seen[i].last_error = Some(-90041)

\* C17: whenever a login fails with -90041, before the attempt is counted
\* as finished the driver has put the client into WAITING_FOR_MFA, has
\* obtained an MFA code and has submitted a second login for the same
\* username with the MFA code as the password.
C17_MfaRound ==
    AuthDriverRuns =>
        \A i \in 1..Len(drv.seen) :
            ( /\ MfaDemanded(i)
              /\ AttemptNo > drv.logins[i].attempt \/ AuthDriverDone )
            => /\ Len(drv.logins) > i
               /\ drv.logins[i + 1].attempt = drv.logins[i].attempt
               /\ drv.logins[i + 1].username = drv.logins[i].username
               /\ drv.logins[i + 1].state = WAITING_FOR_MFA
               /\ "mfa_code" \in DOMAIN drv
               /\ drv.logins[i + 1].password \in MfaCodes

-----------------------------------------------------------------------------
(* Properties of execute_command, under SpecExec *)

ExecDone == ExecRuns /\ pc = "idle" /\ drv.at = "done"
Logged(message) == \E i \in 1..Len(drv.logged) : drv.logged[i] = message

\* C16: when OneEdgeApi.authenticate_user has reported failure,
\* execute_command submits no command batch, does not log that the user was
\* authenticated, and ends reporting failure with no result.
C16_NoBatchAfterFailedLogin ==
    (ExecRuns /\ drv.auth = Some(FALSE)) =>
        /\ drv.published = <<>>
        /\ ~Logged("User authenticated successfully.")
        /\ ~Logged("Commands published successfully.")
        /\ ExecDone => drv.result = None

-----------------------------------------------------------------------------
(* Properties of authenticate, verify_auth_state and close_session *)

\* The auth entry of the result of the login reports success.
AuthEntryOk ==
    /\ rc.kind = "return"
    /\ "auth" \in DOMAIN rc.results
    /\ "success" \in DOMAIN rc.results["auth"]
    /\ rc.results["auth"]["success"]

ReturnedTrue == ret.kind = "return" /\ ret.value = TRUE

\* C18: authenticate returns True exactly when the auth entry of the login
\* response reports success; when it returns True the session read from the
\* client is the sessionId of that entry and is not None, the state is
\* AUTHENTICATED and last_error is None.
C18_SuccessfulLogin ==
    (Finished /\ caller = "authenticate") =>
        /\ ReturnedTrue <=> AuthEntryOk
        /\ ReturnedTrue =>
              /\ session_id # None
              /\ "params" \in DOMAIN rc.results["auth"]
              /\ "sessionId" \in DOMAIN rc.results["auth"]["params"]
              /\ session_id = Some(rc.results["auth"]["params"]["sessionId"])
              /\ _auth_state = AUTHENTICATED
              /\ _last_error = None

\* The entry run_command hands to its caller.
CommandResult == IF "1" \in DOMAIN rc.results THEN rc.results["1"] ELSE rc.results

\* The session the call started with is still what the cache holds.
SessionKept ==
    /\ _session_cache.value = start
    /\ session_id = start \/ now >= _session_cache.expires

\* C19: verify_auth_state on a client without a usable session (None, "",
\* "None" or "null") sets the session to None and the state to
\* NOT_AUTHENTICATED and posts nothing; otherwise it submits the single
\* command session.info, and when that command is unsuccessful the session
\* is None and the state NOT_AUTHENTICATED, when it is successful the
\* session is kept and the state is AUTHENTICATED.
C19_VerifyAuthState ==
    (Finished /\ caller = "verify_auth_state") =>
        IF start \in {None, Some(""), Some("None"), Some("null")}
        THEN /\ posts = <<>>
             /\ ret.kind = "return"
             /\ session_id = None
             /\ _auth_state = NOT_AUTHENTICATED
        ELSE /\ posts # <<>>
             /\ \A i \in 1..Len(posts) :
                   posts[i].payload = ("1" :> [command |-> "session.info"])
                                      @@ ("auth" :> [sessionId |-> start])
             /\ \A i \in 1..(Len(posts) - 1) : posts[i].outcome = "failed"
             /\ rc.kind = "return" =>
                   IF CommandResult["success"]
                   THEN SessionKept /\ _auth_state = AUTHENTICATED
                   ELSE session_id = None /\ _auth_state = NOT_AUTHENTICATED

C19_Witness ==
    /\ Finished /\ caller = "verify_auth_state"
    /\ start = Some("null")
    /\ posts = <<>>
    /\ session_id = None

\* C20: when close_session has completed with a successful session.end
\* response, the session reads None and the state is NOT_AUTHENTICATED.
C20_LogoutClearsSession ==
    ( /\ Finished /\ caller = "close_session"
      /\ ret.kind = "return" /\ ret.value # None )
    => /\ session_id = None
       /\ _auth_state = NOT_AUTHENTICATED

-----------------------------------------------------------------------------
(* Session-invalidating error code *)

InSeq(x, seq) == \E i \in 1..Len(seq) : seq[i] = x

\* The result of the batch c carries the code: in its summary or in the
\* entry of one of the submitted keys.
CarriesCode(results, c, code) ==
    \/ InSeq(code, results["errorCodes"])
    \/ \E k \in DOMAIN c \cap DOMAIN results :
          /\ "errorCodes" \in DOMAIN results[k]
          /\ InSeq(code, results[k]["errorCodes"])

\* C21: whenever the result of a batch, a login or any other, carries the
\* code -90000, the session is cleared before the client's next request:
\* once the call has ended session_id reads None and the state is
\* NOT_AUTHENTICATED.
C21_ExpiredCodeClearsSession ==
    (Finished /\ rc.kind = "return" /\ CarriesCode(rc.results, cmds, -90000)) =>
        /\ session_id = None
        /\ _auth_state = NOT_AUTHENTICATED

\* ---------------------------------------------------------------------
\* execute_command: the logout, the order of the calls, the result
\* ---------------------------------------------------------------------

\* How often op was entered in this invocation.
CallCount(op) == Cardinality({ i \in 1..Len(drv.calls) : drv.calls[i] = op })

\* The exit path taken once authenticate_user() has handed the client to
\* execute_command.
ExitPath ==
    IF drv.command_func.kind = "raises" THEN "builder raised"
    ELSE IF drv.command_func.commands = <<>> THEN "builder returned nothing"
    ELSE IF drv.result = None THEN "publishing raised"
    ELSE "publishing succeeded"

\* C22: once execute_command holds the API client (api is set),
\* close_session is entered exactly once and is the last API call of the
\* invocation, whether the command builder returned nothing, the builder
\* raised, publishing raised or publishing succeeded.
C22_GuaranteedLogout ==
    /\ (ExecRuns /\ ExecDone /\ drv.api) =>
            /\ CallCount("close_session") = 1
            /\ drv.calls[Len(drv.calls)] = "close_session"
    /\ ExecRuns =>
            \A i \in 1..Len(drv.calls) :
                drv.calls[i] = "close_session" => i = Len(drv.calls)

C22_Witness ==
    /\ ExecRuns /\ ExecDone /\ drv.api
    /\ ExitPath = "publishing raised"
    /\ CallCount("close_session") = 1

\* C23: when the spreadsheet is missing, empty, malformed, without an
\* identifier column or yields lists of different lengths, the operation
\* run through execute_command issues no HTTP request at all (no login, no
\* command batch, no logout) and submits no part of the batch.
C23_DataErrorsFailFast ==
    (ExecRuns /\ drv.command_func.kind = "data_error") =>
        /\ drv.calls = <<>>
        /\ drv.published = <<>>
        /\ pc \notin {"post", "await"}

\* C24: execute_command never ends with an exception: whatever
\* authentication, command building, publishing and session closing did
\* (close_session raising or returning None included), it returns the
\* publish result when publishing succeeded and None otherwise.
C24_NeverPropagates ==
    ExecDone =>
        /\ ret.op = "execute_command"
        /\ ret.kind = "return"
        /\ ret.value = drv.result

\* The stage of the flow an API call belongs to.
Stage(op) ==
    CASE op \in {"authenticate", "verify_auth_state"} -> 1
      [] op = "run_commands" -> 2
      [] op = "close_session" -> 3

InFlight == pc \in {"post", "await", "sleep"}

\* C25: within one execute_command invocation at most one HTTP request is in
\* flight, and it belongs to the call entered last; the calls are entered in
\* the order login (with verification), at most one command batch,
\* session.end, so no batch is posted before the login exchange has ended
\* and none after session.end.
C25_SingleSequentialFlow ==
    ExecRuns =>
        /\ \A i \in 1..Len(posts) :
               posts[i].outcome = "pending" => (i = Len(posts) /\ pc = "await")
        /\ InFlight => (drv.calls # <<>> /\ caller = drv.calls[Len(drv.calls)])
        /\ \A i, j \in 1..Len(drv.calls) :
               i < j => Stage(drv.calls[i]) <= Stage(drv.calls[j])
        /\ CallCount("run_commands") <= 1
        /\ CallCount("close_session") <= 1
        /\ drv.calls # <<>> =>
               (Stage(drv.calls[1]) = 1 \/ drv.username = "" \/ drv.password = "")

C25_Witness ==
    /\ ExecDone
    /\ drv.calls = <<"authenticate", "verify_auth_state", "run_commands",
                     "close_session">>
    /\ drv.result # None

------------------------------------------------------------------------------
(* The command builders of create_commands.py and creating_commands.py *)

MaxLen == 3
Imeis == {"imei1", "imei2"}
Values == {"v1", "v2"}
TagLists == {<<"t1">>, <<"t1", "t2">>}

SeqsUpTo(S, n) == UNION { [1..k -> S] : k \in 0..n }
ImeiLists == SeqsUpTo(Imeis, MaxLen)
ValueLists == SeqsUpTo(Values, MaxLen)

\* enumerate(iterable, start): the pairs (start, x1), (start + 1, x2), ...
enumerate_FromZero(list, first) == [n \in 1..Len(list) |-> << n - 1, list[n] >>]
enumerate(list, first) == [n \in 1..Len(list) |-> << first + n - 1, list[n] >>]

\* zip(a, b) stops at the end of the shorter list.
Min(a, b) == IF a <= b THEN a ELSE b
zip(a, b) == [n \in 1..Min(Len(a), Len(b)) |-> << a[n], b[n] >>]

\* str(i) of a positive int.
str(i) == ToString(i)

\* A dict comprehension: the items are inserted in order, a later item
\* replacing an earlier one under the same key.
RECURSIVE FromItems(_)
FromItems(items) ==
    IF items = <<>> THEN <<>>
    ELSE LET last == items[Len(items)]
         IN  Update(FromItems(SubSeq(items, 1, Len(items) - 1)), last[1] :> last[2])

Descriptor(command, params) == [command |-> command, params |-> params]

create_commands_tags(imei_list, tags_list) ==
    LET e == enumerate(imei_list, 1)
    IN  FromItems([n \in 1..Len(e) |->
            << str(e[n][1]),
               Descriptor("thing.tag.add",
                          [thingKey |-> e[n][2], tags |-> tags_list]) >>])

create_commands_device_profile(imei_list, profile_id) ==
    LET e == enumerate(imei_list, 1)
    IN  FromItems([n \in 1..Len(e) |->
            << str(e[n][1]),
               Descriptor("lwm2m.device.profile.change",
                          [thingKey |-> e[n][2], profileId |-> profile_id]) >>])

\* The comprehension of create_commands_settings, in both files.
SettingsCommands(imei_list, value_list) ==
    LET e == enumerate(zip(imei_list, value_list), 1)
    IN  FromItems([n \in 1..Len(e) |->
            << str(e[n][1]),
               Descriptor("attribute.publish",
                          [thingKey |-> e[n][2][1], key |-> "att_settings_change",
                           value |-> e[n][2][2]]) >>])

create_commands_thing_def(imei_list, thing_key) ==
    LET e == enumerate(imei_list, 1)
    IN  FromItems([n \in 1..Len(e) |->
            << str(e[n][1]),
               Descriptor("thing.def.change",
                          [key |-> e[n][2], newDefKey |-> thing_key,
                           dropProps |-> FALSE, dropAttrs |-> TRUE,
                           dropAlarms |-> TRUE]) >>])

create_commands_undeploy(imei_list) ==
    LET e == enumerate(imei_list, 1)
    IN  FromItems([n \in 1..Len(e) |->
            << str(e[n][1]),
               Descriptor("attribute.publish",
                          [thingKey |-> e[n][2], key |-> "data_destination",
                           value |-> ""]) >>])

create_commands_delete_tag(imei_list, tags_list) ==
    LET e == enumerate(imei_list, 1)
    IN  FromItems([n \in 1..Len(e) |->
            << str(e[n][1]),
               Descriptor("thing.tag.delete",
                          [thingKey |-> e[n][2], tags |-> tags_list]) >>])

\* create_commands.py: a ValueError when the lists differ in length.
create_commands_settings(imei_list, value_list) ==
    IF Len(imei_list) # Len(value_list)
    THEN Raised("create_commands_settings", "ValueError")
    ELSE Returned("create_commands_settings", SettingsCommands(imei_list, value_list))

\* creating_commands.py: no test of the lengths.
creating_commands_settings(imei_list, value_list) ==
    Returned("create_commands_settings", SettingsCommands(imei_list, value_list))

\* A builder is awaited with the given arguments and its outcome is kept.
Built(fn, imei_list, arg, out) ==
    /\ pc = "idle"
    /\ drv = NoDriver
    /\ drv' = [op |-> "builder", fn |-> fn, imei_list |-> imei_list,
               arg |-> arg, out |-> out]
    /\ UNCHANGED << pc, ret >>
    /\ KeepClient /\ KeepCall /\ KeepTime

BuildTags ==
    \E imei_list \in ImeiLists, tags_list \in TagLists :
        Built("create_commands_tags", imei_list, tags_list,
              Returned("create_commands_tags",
                       create_commands_tags(imei_list, tags_list)))

BuildDeviceProfile ==
    \E imei_list \in ImeiLists, profile_id \in {"p1"} :
        Built("create_commands_device_profile", imei_list, profile_id,
              Returned("create_commands_device_profile",
                       create_commands_device_profile(imei_list, profile_id)))

BuildSettings ==
    \E imei_list \in ImeiLists, value_list \in ValueLists :
        Built("create_commands_settings", imei_list, value_list,
              create_commands_settings(imei_list, value_list))

BuildSettingsCreating ==
    \E imei_list \in ImeiLists, value_list \in ValueLists :
        Built("creating_commands.create_commands_settings", imei_list, value_list,
              creating_commands_settings(imei_list, value_list))

BuildThingDef ==
    \E imei_list \in ImeiLists, thing_key \in {"def1"} :
        Built("create_commands_thing_def", imei_list, thing_key,
              Returned("create_commands_thing_def",
                       create_commands_thing_def(imei_list, thing_key)))

BuildUndeploy ==
    \E imei_list \in ImeiLists :
        Built("create_commands_undeploy", imei_list, None,
              Returned("create_commands_undeploy",
                       create_commands_undeploy(imei_list)))

BuildDeleteTag ==
    \E imei_list \in ImeiLists, tags_list \in TagLists :
        Built("create_commands_delete_tag", imei_list, tags_list,
              Returned("create_commands_delete_tag",
                       create_commands_delete_tag(imei_list, tags_list)))

\* Python values whose type the code tests: None, a str, a list.
PyNone == [type |-> "NoneType"]
PyStr(x) == [type |-> "str", chars |-> x]
PyList(x) == [type |-> "list", items |-> x]

\* bool(x): None, "" and [] are false.
bool(x) ==
    CASE x.type = "NoneType" -> FALSE
      [] x.type = "str" -> x.chars # ""
      [] x.type = "list" -> x.items # <<>>

\* x if isinstance(x, list) else [x]
AsList(x) == IF x.type = "list" THEN x ELSE PyList(<< x.chars >>)

\* sum([bool(a), bool(b), ...]): True counts 1.
sum(flags) == Cardinality({ i \in 1..Len(flags) : flags[i] })

\* The test of the criteria: sum([...]) != 1.
NotExactlyOne_NoneOnly(flags) == sum(flags) = 0
NotExactlyOne(flags) == sum(flags) # 1

create_command_delete_things(thing_keys, thing_ids, tags, query) ==
    IF NotExactlyOne(<< bool(thing_keys), bool(thing_ids), bool(tags), bool(query) >>)
    THEN Raised("create_command_delete_things", "ValueError")
    ELSE Returned("create_command_delete_things",
                  Descriptor("thing.delete",
                             IF bool(thing_keys) THEN "key" :> AsList(thing_keys)
                             ELSE IF bool(thing_ids) THEN "id" :> AsList(thing_ids)
                             ELSE IF bool(tags) THEN "tag" :> tags
                             ELSE IF bool(query) THEN "query" :> query
                             ELSE <<>>))

KeyArgs == { PyNone, PyStr(""), PyStr("k1"), PyList(<<>>), PyList(<< "k1" >>) }
TagArgs == { PyNone, PyList(<<>>), PyList(<< "t1" >>) }
QueryArgs == { PyNone, PyStr(""), PyStr("q") }

BuildDeleteThings ==
    /\ pc = "idle"
    /\ drv = NoDriver
    /\ \E thing_keys \in KeyArgs, thing_ids \in KeyArgs, tags \in TagArgs,
          query \in QueryArgs :
          drv' = [op |-> "create_command_delete_things",
                  thing_keys |-> thing_keys, thing_ids |-> thing_ids,
                  tags |-> tags, query |-> query,
                  out |-> create_command_delete_things(thing_keys, thing_ids,
                                                       tags, query)]
    /\ UNCHANGED << pc, ret >>
    /\ KeepClient /\ KeepCall /\ KeepTime

\* if imei not in seen:
Unseen_Always(imei, seen) == TRUE
Unseen(imei, seen) == imei \notin seen

\* The loop of deduplicate_imeis after the first n pairs of
\* zip(imei_list, settings_list).
RECURSIVE DedupLoop(_, _)
DedupLoop(pairs, n) ==
    IF n = 0
    THEN [unique_imeis |-> <<>>, unique_settings |-> <<>>, seen |-> {}]
    ELSE LET before == DedupLoop(pairs, n - 1)
             imei == pairs[n][1]
             setting == pairs[n][2]
         IN  IF Unseen(imei, before.seen)
             THEN [unique_imeis |-> Append(before.unique_imeis, imei),
                   unique_settings |-> Append(before.unique_settings, setting),
                   seen |-> before.seen \cup {imei}]
             ELSE before

deduplicate_imeis(imei_list, settings_list) ==
    LET pairs == zip(imei_list, settings_list)
        end == DedupLoop(pairs, Len(pairs))
    IN  << end.unique_imeis, end.unique_settings >>

Deduplicate ==
    /\ pc = "idle"
    /\ drv = NoDriver
    /\ \E imei_list \in ImeiLists, settings_list \in ValueLists :
          drv' = [op |-> "deduplicate_imeis", imei_list |-> imei_list,
                  settings_list |-> settings_list,
                  out |-> deduplicate_imeis(imei_list, settings_list)]
    /\ UNCHANGED << pc, ret >>
    /\ KeepClient /\ KeepCall /\ KeepTime

\* The outcomes of the readers: an exception, or the lists extracted from
\* the file after deduplicate_imeis.  read_imei_only raises on an empty
\* list; read_imei_and_setting extracts the identifiers from rows that all
\* have a setting, so they are never more than the settings.
ReadImeiOnly ==
    { Raised("read_imei_only", "ValueError") }
        \cup { Returned("read_imei_only", deduplicate_imeis(l, l)[1]) :
                 l \in ImeiLists \ { <<>> } }

ReadImeiAndSetting ==
    { Raised("read_imei_and_setting", "ValueError") }
        \cup { Returned("read_imei_and_setting", deduplicate_imeis(p[1], p[2])) :
                 p \in { q \in ImeiLists \X ValueLists : Len(q[1]) <= Len(q[2]) } }

\* The items of a dict as run_commands meets them: the key, the type of
\* the value and, for a dict value, its keys.
ItemsOfBatch(batch) ==
    { [key |-> k, type |-> "dict", fields |-> DOMAIN batch[k]] : k \in DOMAIN batch }

ItemsOfDescriptor(d) ==
    { [key |-> "command", type |-> "str", fields |-> {}],
      [key |-> "params", type |-> "dict", fields |-> DOMAIN d.params] }

\* What a CLI operation returns: commands_json, or None after any
\* exception.
Commands(out, items) ==
    IF out.kind = "return"
    THEN [is |-> "dict", items |-> items]
    ELSE [is |-> "None", items |-> {}]

OfBatch(out) ==
    Commands(out, IF out.kind = "return" THEN ItemsOfBatch(out.value) ELSE {})

OfDescriptor(out) ==
    Commands(out, IF out.kind = "return" THEN ItemsOfDescriptor(out.value) ELSE {})

\* A CLI operation built from a reader's outcome: the exception of the
\* reader ends it, otherwise the builder is awaited.
ThenBuild(read, built) == IF read.kind = "return" THEN built ELSE read

\* execute_command awaits the CLI operation; commands that are true are
\* handed to process_commands and from there to run_commands.
Cli(subcommand, commands) ==
    /\ pc = "idle"
    /\ drv = NoDriver
    /\ drv' = [op |-> "cli", subcommand |-> subcommand, commands |-> commands,
               handed |-> commands.items # {}]
    /\ UNCHANGED << pc, ret >>
    /\ KeepClient /\ KeepCall /\ KeepTime

add_settings ==
    \E read \in ReadImeiAndSetting :
        Cli("add-settings",
            OfBatch(ThenBuild(read, create_commands_settings(read.value[1],
                                                             read.value[2]))))

apply_device_profile ==
    \E read \in ReadImeiOnly, profile_id \in {"p1"} :
        Cli("apply-profile",
            OfBatch(ThenBuild(read,
                Returned("create_commands_device_profile",
                         create_commands_device_profile(read.value, profile_id)))))

add_tags ==
    \E read \in ReadImeiOnly, tags \in TagLists :
        Cli("add-tags",
            OfBatch(ThenBuild(read,
                Returned("create_commands_tags",
                         create_commands_tags(read.value, tags)))))

change_thing_definition ==
    \E read \in ReadImeiOnly, thing_key \in {"def1"} :
        Cli("change-def",
            OfBatch(ThenBuild(read,
                Returned("create_commands_thing_def",
                         create_commands_thing_def(read.value, thing_key)))))

undeploy_devices ==
    \E read \in ReadImeiOnly, undeployed \in BOOLEAN :
        Cli("undeploy",
            OfBatch(ThenBuild(read,
                IF undeployed
                THEN Returned("create_commands_undeploy",
                              create_commands_undeploy(read.value))
                ELSE Raised("undeploy_process", "Exception"))))

delete_tags ==
    \E read \in ReadImeiOnly, tags \in TagLists :
        Cli("delete-tags",
            OfBatch(ThenBuild(read,
                Returned("create_commands_delete_tag",
                         create_commands_delete_tag(read.value, tags)))))

delete_things_by_tags ==
    \E tags \in TagArgs :
        Cli("delete-things-tags",
            OfDescriptor(create_command_delete_things(PyNone, PyNone, tags, PyNone)))

delete_things_by_keys ==
    \E read \in ReadImeiOnly :
        Cli("delete-things-keys",
            OfDescriptor(ThenBuild(read,
                create_command_delete_things(PyList(read.value), PyNone,
                                             PyNone, PyNone))))

InitBuild == InitClient(Fresh)

NextBuild ==
    \/ BuildTags
    \/ BuildDeviceProfile
    \/ BuildSettings
    \/ BuildSettingsCreating
    \/ BuildThingDef
    \/ BuildUndeploy
    \/ BuildDeleteTag
    \/ BuildDeleteThings
    \/ Deduplicate
    \/ add_settings
    \/ apply_device_profile
    \/ add_tags
    \/ change_thing_definition
    \/ undeploy_devices
    \/ delete_tags
    \/ delete_things_by_tags
    \/ delete_things_by_keys

SpecBuild == InitBuild /\ [][NextBuild]_vars

------------------------------------------------------------------------------
(* Properties of the builders, under SpecBuild *)

BuilderReturned == drv.op = "builder" /\ drv.out.kind = "return"

\* The identifier a command descriptor is aimed at.
Target(entry) ==
    IF "thingKey" \in DOMAIN entry.params
    THEN entry.params.thingKey
    ELSE entry.params.key

\* C26: a per-device builder given n identifiers returns a batch with
\* exactly the keys "1".."n", all distinct, whose entry under key i targets
\* the i-th identifier; the key "auth" is never produced.
C26_BuilderKeys ==
    BuilderReturned =>
        LET n == Len(drv.imei_list)
            batch == drv.out.value
        IN  /\ DOMAIN batch = { str(i) : i \in 1..n }
            /\ Cardinality(DOMAIN batch) = n
            /\ \A i \in 1..n : Target(batch[str(i)]) = drv.imei_list[i]
            /\ "auth" \notin DOMAIN batch

SettingsBuilt ==
    /\ drv.op = "builder"
    /\ drv.fn \in {"create_commands_settings",
                    "creating_commands.create_commands_settings"}

\* C28: create_commands_settings given lists of different lengths raises
\* ValueError and produces no commands; given lists of equal length it
\* produces exactly one attribute.publish command per identifier, the i-th
\* identifier paired with the i-th value.
C28_SettingsLengths ==
    SettingsBuilt =>
        IF Len(drv.imei_list) # Len(drv.arg)
        THEN drv.out.kind = "ValueError" /\ drv.out.value = None
        ELSE /\ drv.out.kind = "return"
             /\ DOMAIN drv.out.value = { str(i) : i \in 1..Len(drv.imei_list) }
             /\ \A i \in 1..Len(drv.imei_list) :
                    LET entry == drv.out.value[str(i)]
                    IN  /\ entry.command = "attribute.publish"
                        /\ entry.params.thingKey = drv.imei_list[i]
                        /\ entry.params.value = drv.arg[i]

DeleteThingsBuilt == drv.op = "create_command_delete_things"

\* The criteria that were supplied non-empty, by the parameter each one
\* becomes.
Supplied ==
    { c \in {"key", "id", "tag", "query"} :
        bool(CASE c = "key" -> drv.thing_keys
               [] c = "id" -> drv.thing_ids
               [] c = "tag" -> drv.tags
               [] c = "query" -> drv.query) }

\* C29: create_command_delete_things raises ValueError when none or more
\* than one of thing_keys, thing_ids, tags and query is non-empty;
\* otherwise it returns a thing.delete command whose params hold only the
\* parameter of the one criterion supplied.
C29_ExactlyOneCriterion ==
    DeleteThingsBuilt =>
        IF Cardinality(Supplied) # 1
        THEN drv.out.kind = "ValueError"
        ELSE /\ drv.out.kind = "return"
             /\ drv.out.value.command = "thing.delete"
             /\ DOMAIN drv.out.value.params = Supplied

C29_Witness ==
    /\ DeleteThingsBuilt
    /\ Supplied = {"id"}
    /\ drv.thing_ids = PyStr("k1")
    /\ drv.out.kind = "return"
    /\ drv.out.value.params = ("id" :> PyList(<< "k1" >>))

Deduplicated == drv.op = "deduplicate_imeis"

\* The index of the first occurrence of x in list.
FirstIndex(x, list) ==
    CHOOSE i \in 1..Len(list) :
        list[i] = x /\ \A j \in 1..(i - 1) : list[j] # x

\* C30: for lists of equal length deduplicate_imeis returns each distinct
\* input identifier exactly once, in the order of first occurrence, and a
\* settings list of the same length whose i-th entry is the setting at the
\* first occurrence of the i-th returned identifier.
C30_Deduplicate ==
    (Deduplicated /\ Len(drv.imei_list) = Len(drv.settings_list)) =>
        LET ids == drv.out[1]
            settings == drv.out[2]
        IN  /\ { ids[i] : i \in 1..Len(ids) }
                   = { drv.imei_list[i] : i \in 1..Len(drv.imei_list) }
            /\ \A i, j \in 1..Len(ids) : ids[i] = ids[j] => i = j
            /\ \A i, j \in 1..Len(ids) :
                   i < j => FirstIndex(ids[i], drv.imei_list)
                               < FirstIndex(ids[j], drv.imei_list)
            /\ Len(settings) = Len(ids)
            /\ \A i \in 1..Len(ids) :
                   settings[i] = drv.settings_list[FirstIndex(ids[i], drv.imei_list)]

C30_Witness ==
    /\ Deduplicated
    /\ drv.imei_list = << "imei2", "imei1", "imei2" >>
    /\ drv.settings_list = << "v1", "v1", "v2" >>
    /\ drv.out = << << "imei2", "imei1" >>, << "v1", "v1" >> >>

\* C27: every payload a CLI operation hands to run_commands is a
\* CommandBatch: under each of its keys lies a {command, params}
\* descriptor, for every subcommand, delete-things-tags and
\* delete-things-keys included.
C27_PayloadIsCommandBatch ==
    (drv.op = "cli" /\ drv.handed) =>
        \A item \in drv.commands.items :
            /\ item.type = "dict"
            /\ item.fields = {"command", "params"}

------------------------------------------------------------------------------
(* The spreadsheet readers of get_data.py *)

MaxRows == 3
ImeiDigits == 15

\* A cell of the DataFrame: NaN for an empty field, else its text as a
\* sequence of characters.
NaN == [nan |-> TRUE, text |-> <<>>]
Text(chars) == [nan |-> FALSE, text |-> chars]

Digits == {"0", "1", "2", "3", "4", "5", "6", "7", "8", "9"}

\* str(value) / astype(str): NaN becomes the text "nan".
astype_str(cell) == IF cell.nan THEN << "n", "a", "n" >> ELSE cell.text

\* str.lower(), for the capitals that occur in the files.
LowerChar(ch) ==
    CASE ch = "I" -> "i"
      [] ch = "M" -> "m"
      [] ch = "E" -> "e"
      [] OTHER -> ch

lower(chars) == [i \in 1..Len(chars) |-> LowerChar(chars[i])]

imei == << "i", "m", "e", "i" >>

\* The 15 characters from position i on are all digits.
DigitsAt(chars, i) ==
    /\ i + ImeiDigits - 1 <= Len(chars)
    /\ \A j \in i..(i + ImeiDigits - 1) : chars[j] \in Digits

\* re.match(r"^\d{15}$", str(value))
is_imei(cell) ==
    LET chars == astype_str(cell)
    IN  Len(chars) = ImeiDigits /\ DigitsAt(chars, 1)

\* str.extract(r'(\d{15})'): the first 15 consecutive digits, else NaN.
extract(chars) ==
    IF \E i \in 1..Len(chars) : DigitsAt(chars, i)
    THEN LET i == CHOOSE k \in 1..Len(chars) :
                      DigitsAt(chars, k) /\ \A j \in 1..(k - 1) : ~DigitsAt(chars, j)
         IN  Text(SubSeq(chars, i, i + ImeiDigits - 1))
    ELSE NaN

\* 'imei' in str(col).lower()
ContainsImei(chars) ==
    \E i \in 1..Len(chars) :
        /\ i + Len(imei) - 1 <= Len(chars)
        /\ SubSeq(lower(chars), i, i + Len(imei) - 1) = imei

\* read_file: the DataFrame of a .csv file (header=None: every line is a
\* row), or the exception raised.
read_file(file) ==
    CASE file.format = "xlsx" -> Raised("read_file", "AttributeError")
      [] file.format = "csv" ->
            IF ~file.exists THEN Raised("read_file", "FileNotFoundError")
            ELSE IF file.rows = <<>> THEN Raised("read_file", "EmptyDataError")
            ELSE Returned("read_file", file.rows)
      [] OTHER -> Raised("read_file", "ValueError")

Columns(df) == 1..Len(df[1])

\* df[col].astype(str).str.lower().eq("imei").any()
HasImeiHeader(df, col) ==
    \E r \in 1..Len(df) : lower(astype_str(df[r][col])) = imei

\* df[col].apply(is_imei).any()
HasImeiValue(df, col) == \E r \in 1..Len(df) : is_imei(df[r][col])

\* The loop that identifies the IMEI column: the first column with a
\* header "imei" or a 15-digit value; 0 when there is none.
FindImeiColumn(df) ==
    LET found == { col \in Columns(df) :
                     HasImeiHeader(df, col) \/ HasImeiValue(df, col) }
    IN  IF found = {} THEN 0
        ELSE CHOOSE col \in found : \A other \in found : col <= other

\* The index of the header row: the first row whose IMEI cell is "imei".
HeaderRow(df, col) ==
    CHOOSE r \in 1..Len(df) :
        /\ lower(astype_str(df[r][col])) = imei
        /\ \A q \in 1..(r - 1) : lower(astype_str(df[q][col])) # imei

\* next((col for col in df.columns if 'imei' in str(col).lower()), None)
\* over the labels taken from the header row.
ImeiLabel(names) ==
    LET found == { col \in 1..Len(names) : ContainsImei(astype_str(names[col])) }
    IN  IF found = {} THEN 0
        ELSE CHOOSE col \in found : \A other \in found : col <= other

\* The first column whose label differs from the IMEI column's; 0 when
\* there is none.
SettingColumn(labels, imei_col) ==
    LET found == { col \in 1..Len(labels) : labels[col] # labels[imei_col] }
    IN  IF found = {} THEN 0
        ELSE CHOOSE col \in found : \A other \in found : col <= other

\* The labels of a frame read with header=None: 0, 1, ...
Positions(df) == [col \in Columns(df) |-> Text(<< ToString(col - 1) >>)]

\* [...].dropna().tolist() of a list of cells.
Dropna(cells) == SelectSeq(cells, LAMBDA c : ~c.nan)

\* The rows after the header row.
Below(df, header_row) == SubSeq(df, header_row + 1, Len(df))

\* The extraction at the end of read_imei_and_setting: the rows with both
\* cells present, the identifiers found in them, the settings of all of
\* them, then deduplicate_imeis.
ExtractBoth(df, imei_col, setting_col) ==
    LET imei_settings ==
            SelectSeq(df, LAMBDA row : ~row[imei_col].nan /\ ~row[setting_col].nan)
        ids == Dropna([r \in 1..Len(imei_settings) |->
                          extract(astype_str(imei_settings[r][imei_col]))])
        settings == Dropna([r \in 1..Len(imei_settings) |->
                               imei_settings[r][setting_col]])
    IN  deduplicate_imeis(ids, settings)

read_imei_and_setting(file) ==
    LET read == read_file(file)
        df == read.value
        imei_col == FindImeiColumn(df)
        setting_col == SettingColumn(Positions(df), imei_col)
    IN  IF read.kind # "return" THEN read
        ELSE IF df = <<>> THEN Raised("read_imei_and_setting", "ValueError")
        ELSE IF imei_col = 0 THEN Raised("read_imei_and_setting", "ValueError")
        ELSE IF setting_col = 0 THEN Raised("read_imei_and_setting", "ValueError")
        ELSE IF HasImeiHeader(df, imei_col)
        THEN LET header_row == HeaderRow(df, imei_col)
                 labels == df[header_row]
                 new_imei_col == ImeiLabel(labels)
                 new_setting_col == SettingColumn(labels, new_imei_col)
             IN  IF new_imei_col = 0 \/ new_setting_col = 0
                 THEN Raised("read_imei_and_setting", "ValueError")
                 ELSE Returned("read_imei_and_setting",
                               ExtractBoth(Below(df, header_row), new_imei_col,
                                           new_setting_col))
        ELSE Returned("read_imei_and_setting",
                      ExtractBoth(df, imei_col, setting_col))

read_imei_only(file) ==
    LET read == read_file(file)
        df == read.value
        imei_col == FindImeiColumn(df)
    IN  IF read.kind # "return" THEN read
        ELSE IF df = <<>> THEN Raised("read_imei_only", "ValueError")
        ELSE IF imei_col = 0 THEN Raised("read_imei_only", "ValueError")
        ELSE LET header_present == HasImeiHeader(df, imei_col)
                 rows == IF header_present
                         THEN Below(df, HeaderRow(df, imei_col)) ELSE df
                 col == IF header_present
                        THEN ImeiLabel(df[HeaderRow(df, imei_col)]) ELSE imei_col
                 imei_list == IF col = 0 THEN <<>>
                              ELSE Dropna([r \in 1..Len(rows) |->
                                              extract(astype_str(rows[r][col]))])
             IN  IF col = 0 \/ imei_list = <<>>
                 THEN Raised("read_imei_only", "ValueError")
                 ELSE Returned("read_imei_only",
                               deduplicate_imeis(imei_list, imei_list)[1])

\* The cells the files are made of: a header, two IMEIs, a 16-digit
\* number that starts with the first IMEI, a number too short, an empty
\* field; two settings.
ImeiHeader == Text(<< "I", "M", "E", "I" >>)
ImeiA == Text([i \in 1..ImeiDigits |-> "1"])
ImeiB == Text([i \in 1..ImeiDigits |-> "2"])
TooLong == Text([i \in 1..(ImeiDigits + 1) |-> "1"])
TooShort == Text(<< "1", "2", "3", "4", "5" >>)
SettingA == Text(<< "s", "A" >>)
SettingB == Text(<< "s", "B" >>)

ImeiCells == { ImeiHeader, ImeiA, ImeiB, TooShort, NaN }
SettingCells == { SettingA, SettingB, NaN }

CsvFile(rows) == [format |-> "csv", exists |-> TRUE, rows |-> rows]

OtherFiles ==
    { [format |-> "xlsx", exists |-> TRUE, rows |-> <<>>],
      [format |-> "txt", exists |-> TRUE, rows |-> <<>>],
      [format |-> "csv", exists |-> FALSE, rows |-> <<>>] }

TwoColumnFiles ==
    { CsvFile(rows) :
        rows \in SeqsUpTo({ << a, b >> : a \in ImeiCells, b \in SettingCells }, MaxRows) }

OneColumnFiles ==
    { CsvFile(rows) :
        rows \in SeqsUpTo({ << a >> : a \in ImeiCells \cup { TooLong } }, MaxRows) }

CallReadImeiAndSetting ==
    /\ pc = "idle"
    /\ drv = NoDriver
    /\ \E file \in TwoColumnFiles \cup OtherFiles :
          drv' = [op |-> "read_imei_and_setting", file |-> file,
                  out |-> read_imei_and_setting(file)]
    /\ UNCHANGED << pc, ret >>
    /\ KeepClient /\ KeepCall /\ KeepTime

CallReadImeiOnly ==
    /\ pc = "idle"
    /\ drv = NoDriver
    /\ \E file \in OneColumnFiles \cup OtherFiles :
          drv' = [op |-> "read_imei_only", file |-> file,
                  out |-> read_imei_only(file)]
    /\ UNCHANGED << pc, ret >>
    /\ KeepClient /\ KeepCall /\ KeepTime

InitRead == InitClient(Fresh)

NextRead ==
    \/ CallReadImeiAndSetting
    \/ CallReadImeiOnly

SpecRead == InitRead /\ [][NextRead]_vars

------------------------------------------------------------------------------
(* Properties of the readers, under SpecRead *)

ReadBoth == drv.op = "read_imei_and_setting"
ReadOnly == drv.op = "read_imei_only"
ReadReturned == drv.op \in {"read_imei_and_setting", "read_imei_only"}
                    /\ drv.out.kind = "return"

\* A row is a header row when its first cell reads "imei" in any case.
IsHeaderRow(row) == lower(astype_str(row[1])) = imei

\* The data rows of a file: the rows below its first header row, or all
\* rows when it has none.
DataRows(rows) ==
    IF \E r \in 1..Len(rows) : IsHeaderRow(rows[r])
    THEN SubSeq(rows, 1 + (CHOOSE r \in 1..Len(rows) :
                              /\ IsHeaderRow(rows[r])
                              /\ \A q \in 1..(r - 1) : ~IsHeaderRow(rows[q])),
                Len(rows))
    ELSE rows

\* C31: the identifier and the setting at the same index of the lists
\* returned by read_imei_and_setting come from one and the same data row of
\* the file, the rows being taken in order and the header row never among
\* them, also when rows hold an invalid identifier or no setting.
C31_PairsComeFromOneRow ==
    (ReadBoth /\ drv.out.kind = "return") =>
        LET ids == drv.out.value[1]
            settings == drv.out.value[2]
            data == DataRows(drv.file.rows)
        IN  /\ Len(ids) = Len(settings)
            /\ \E f \in [1..Len(ids) -> 1..Len(data)] :
                   /\ \A i, j \in 1..Len(ids) : i < j => f[i] < f[j]
                   /\ \A i \in 1..Len(ids) :
                          /\ extract(astype_str(data[f[i]][1])) = ids[i]
                          /\ data[f[i]][2] = settings[i]

\* The identifier list a reader returned.
ReturnedIds ==
    IF ReadBoth THEN drv.out.value[1] ELSE drv.out.value

\* The first data row in which the identifier is found; 0 when in none.
FirstRowOf(id, data) ==
    LET found == { r \in 1..Len(data) : extract(astype_str(data[r][1])) = id }
    IN  IF found = {} THEN 0
        ELSE CHOOSE r \in found : \A q \in found : r <= q

DescriptiveErrors == {"ValueError", "EmptyDataError", "FileNotFoundError"}

\* C32: read_imei_only and read_imei_and_setting either fail with a
\* descriptive error or return a non-empty identifier list in which every
\* identifier is exactly 15 digits and none occurs twice, in the order of
\* their first occurrence in the rows.
C32_ReadersReturnValidIds ==
    (drv.op \in {"read_imei_and_setting", "read_imei_only"}) =>
        IF drv.out.kind # "return"
        THEN drv.out.kind \in DescriptiveErrors
        ELSE LET ids == ReturnedIds
                 data == DataRows(drv.file.rows)
             IN  /\ ids # <<>>
                 /\ \A i \in 1..Len(ids) : is_imei(ids[i])
                 /\ \A i, j \in 1..Len(ids) : ids[i] = ids[j] => i = j
                 /\ \A i \in 1..Len(ids) : FirstRowOf(ids[i], data) # 0
                 /\ \A i, j \in 1..Len(ids) :
                        i < j => FirstRowOf(ids[i], data) < FirstRowOf(ids[j], data)

------------------------------------------------------------------------------
(* A server that answers with the vendor's transient error code *)

\* The answers that carry -90005: at the top level, or in the entry of one
\* command of the batch.
TransientResponses(c) ==
    { [success |-> FALSE, errorCodes |-> << -90005 >>] }
        \cup { k :> [success |-> FALSE, errorCodes |-> << -90005 >>] :
                 k \in DOMAIN c }

RespondTransient ==
    /\ pc = "await"
    /\ \E response_data \in TransientResponses(cmds) : RespondWith(response_data)

NextTransient ==
    \/ CallRunCommands
    \/ CallRunCommand
    \/ AssignSessionId
    \/ Post
    \/ TransportFailure
    \/ Sleep
    \/ RespondTransient

SpecTransient == Init /\ [][NextTransient]_vars

\* C33: whenever the result of a command batch carries the vendor code
\* -90005, the client has waited 10 time units after the answer before it
\* returns, signalling its caller to retry.
C33_TransientWait ==
    (Finished /\ caller \in {"run_commands", "run_command"}
        /\ rc.kind = "return" /\ CarriesCode(rc.results, cmds, -90005)) =>
        now >= posts[Len(posts)].time + 10

------------------------------------------------------------------------------
(* Frame of a run_commands call that receives no response, under Spec *)

\* A step of a run_commands call in which no response is processed: a POST,
\* a transport failure, a sleep, or the raise of OneEdgeApiError.
StepWithoutResponse ==
    /\ caller = "run_commands" /\ caller' = caller
    /\ pc \in {"post", "await", "sleep"}
    /\ rc'.kind \in {"pending", "OneEdgeApiError"}

\* C34 as stated: while run_commands fails in transport and when it raises
\* OneEdgeApiError, session_id, last_error and auth_state read what they
\* read when the call started.
C34_StateUntouched ==
    [][StepWithoutResponse =>
          /\ session_id' = session_id
          /\ _last_error' = _last_error
          /\ _auth_state' = _auth_state]_vars

\* C34, amended: such a call assigns nothing: the stored session entry,
\* last_error and auth_state are unchanged; session_id reads the same
\* value unless the session's time to live ran out during the sleeps,
\* when it reads None.
C34_StoredStateUntouched ==
    [][StepWithoutResponse =>
          /\ UNCHANGED << _session_cache, _last_error, _auth_state >>
          /\ \/ session_id' = session_id
             \/ session_id' = None /\ now' >= _session_cache.expires]_vars

\* run_commands has raised OneEdgeApiError on a client that holds a session.
C34_Witness ==
    /\ Finished /\ caller = "run_commands"
    /\ rc.kind = "OneEdgeApiError" /\ ret.kind = "OneEdgeApiError"
    /\ Len(posts) = MAX_RETRIES
    /\ start # None /\ session_id = start

-----------------------------------------------------------------------------
(* authenticate_user on a client whose session may be about to expire *)

\* authenticate_user alone, on a client that has been idle for some time.
NextAuthUser ==
    \/ Tick
    \/ CallAuthenticateUser
    \/ AuthUserHead
    \/ AuthUserAfterLogin
    \/ AuthUserVerify
    \/ AuthUserAfterVerify
    \/ AuthUserSleep
    \/ Post
    \/ TransportFailure
    \/ Sleep
    \/ Respond

SpecAuthUser == InitAuth /\ [][NextAuthUser]_vars

\* authenticate_user has just returned v.
AuthUserReturned(v) ==
    /\ drv.op = "authenticate_user" /\ drv.at = "done" /\ pc = "idle"
    /\ ret.op = "authenticate_user" /\ ret.kind = "return" /\ ret.value = v

\* The last call of the client was a session.info that the server answered
\* with success.
SessionInfoSucceeded ==
    /\ caller = "verify_auth_state"
    /\ rc.kind = "return"
    /\ CommandResult["success"]

\* C35: authenticate_user returns True only if, at the moment it returns,
\* auth_state is AUTHENTICATED, session_id is not None and a session.info
\* of that session has succeeded during the call.
C35_TrueMeansVerifiedSession ==
    AuthUserReturned(TRUE) =>
        /\ _auth_state = AUTHENTICATED
        /\ session_id # None
        /\ SessionInfoSucceeded
        /\ start = session_id

\* authenticate_user has ended, by a return or an exception.
AuthUserEnded ==
    /\ drv.op = "authenticate_user" /\ drv.at = "done" /\ pc = "idle"
    /\ ret.op = "authenticate_user"

\* The call was entered with auth_state AUTHENTICATED and did not end with
\* a verified session.
StaleEntryFailed ==
    /\ AuthUserEnded
    /\ drv.entered = AUTHENTICATED
    /\ ~(ret.kind = "return" /\ ret.value)

\* C36: when authenticate_user is entered with auth_state AUTHENTICATED
\* and the verification of the session fails, the call has cleared the
\* session, returns False and has submitted no login.
C36_StaleEntryFailsWithoutLogin ==
    StaleEntryFailed =>
        /\ session_id = None
        /\ ret.kind = "return"
        /\ drv.logins = <<>>

\* The part of C36 that is about the login alone.
StaleEntryNoLogin ==
    (AuthUserEnded /\ drv.entered = AUTHENTICATED) => drv.logins = <<>>

-----------------------------------------------------------------------------
(* The command descriptor of run_iterated_command, under SpecIter *)

\* params holds the injected pagination parameters, with the cursor it.
Injected(params, it) ==
    /\ DOMAIN IterParams \subseteq DOMAIN params
    /\ params["iterator"] = it
    /\ params["useSearch"] = IterParams.useSearch
    /\ params["limit"] = IterParams.limit
    /\ params["showCount"] = IterParams.showCount

\* The cursor of the last page that carried one, "new" before any did.
LastCursor ==
    LET full == SelectSeq(drv.pages, FullPage)
    IN  IF full = <<>> THEN IterParams.iterator
        ELSE full[Len(full)]["params"]["iterator"]

\* C37: every POST of the first page request carries iterator "new",
\* useSearch true, limit 2000 and showCount false, whatever the caller had
\* put in cmd.params; when run_iterated_command has returned, the caller's
\* cmd.params holds the injected parameters, its iterator being the last
\* cursor the server sent.
C37_DescriptorMutatedInPlace ==
    IterActive =>
        /\ Len(drv.log) = 1 =>
              \A i \in 1..Len(posts) :
                  Injected(posts[i].payload["1"].params, "new")
        /\ (pc = "idle" /\ ret.kind = "return") =>
              Injected(drv.cmd.params, LastCursor)

C37_Witness ==
    /\ IterFinished
    /\ ret.kind = "return"
    /\ Len(drv.pages) > 1
    /\ drv.log[1].iterator = "new"
    /\ drv.cmd.params["iterator"] = "c2"
    /\ drv.cmd.params["limit"] = 2000

-----------------------------------------------------------------------------
(* The frame of a failed authenticate, under Spec *)

\* The step in which authenticate stops waiting for run_commands and runs
\* to its end.
LoginEnds ==
    /\ caller = "authenticate" /\ caller' = caller
    /\ pc = "await" /\ pc' \notin {"post", "await", "sleep"}

\* The response reports that the login failed: at the top level or in the
\* auth entry.
ReportsFailure(response) ==
    \/ TopFailed(response)
    \/ "auth" \in DOMAIN response /\ ~response["auth"]["success"]

\* The error codes of the auth entry as authenticate reads it: those of the
\* top level when the top level failed, else the entry's own.
AuthEntryCodes(response) ==
    LET holder == IF TopFailed(response) THEN response ELSE response["auth"]
    IN  IF "errorCodes" \in DOMAIN holder THEN holder["errorCodes"] ELSE <<>>

\* The first of the codes, None when there is none.
FirstOf(codes) == IF codes = <<>> THEN None ELSE Some(Head(codes))

\* C38: an authenticate call that fails, by a response that reports
\* failure or by exhausted transport retries, leaves the stored session as
\* it was; when a response reports the failure, last_error is the first
\* error code of the auth entry and auth_state is NOT_AUTHENTICATED.
C38_FailedLoginFrame ==
    [][LoginEnds =>
          /\ received' = None => UNCHANGED _session_cache
          /\ (received' # None /\ ReportsFailure(received'[1])) =>
                /\ UNCHANGED _session_cache
                /\ _last_error' = FirstOf(AuthEntryCodes(received'[1]))
                /\ _auth_state' = NOT_AUTHENTICATED]_vars

\* The part of C38 that is about the stored session alone.
FailedLoginKeepsSession ==
    [][(LoginEnds /\ (received' # None => ReportsFailure(received'[1])))
          => UNCHANGED _session_cache]_vars

-----------------------------------------------------------------------------
(* The failure modes of the request operations, under SpecIter *)

RequestOperations == {"run_commands", "run_command", "run_iterated_command"}

\* How a request operation may end, or not have ended yet.
ReturnOrApiError == {"none", "pending", "return", "OneEdgeApiError"}

\* C39: whatever the server answers, run_commands, run_command and
\* run_iterated_command return a result or raise OneEdgeApiError; no other
\* exception leaves them.
C39_OnlyApiError ==
    /\ caller \in RequestOperations => rc.kind \in ReturnOrApiError
    /\ ret.op \in RequestOperations => ret.kind \in ReturnOrApiError
====
